---- MODULE Spec2Model ----
(***************************************************************************)
(* The pattern executor of the `x` command (src/src/commands/x.rs):        *)
(* eval_pattern builds one child pipeline per Expression, a forwarder      *)
(* thread copies parent stdin to every Consumer stdin, the main thread     *)
(* composes one output record from one record of every Expression reader,  *)
(* then the children are try_wait-ed / killed and the thread is joined.    *)
(*                                                                         *)
(* Abstractions: a parent-stdin chunk is a number 1..nin (chunk k carries  *)
(* record k); a record on a child's stdout is [src, seq, val]; a pipe is a *)
(* bounded FIFO with an open/closed flag for each end.                     *)
(***************************************************************************)
EXTENDS Integers, Sequences, FiniteSets, TLC

\* Bounds of the model.
MaxIn == 2      \* chunks available on parent stdin
MaxRec == 2     \* records a generator or an external command writes at most
PipeCap == 1    \* chunks / records a pipe holds before a writer blocks
MaxOut == 3     \* records the output loop writes at most
MaxCmds == 2    \* commands of a pipeline the builder is explored with

VARIABLES
    args,         \* the command line: the parsed pattern and the options
    pattern,      \* run's `pattern`, the Pattern that is evaluated
    bytes,        \* the run at the level of bytes: parent stdin and stdout
    spawned,      \* a Spawned handle, its child and the last call on it
    builder,      \* a pipeline Builder, then the Pipeline it built
    parser,       \* a Parser: the source and what parse returned
    rew,          \* this rew process: argv[0], sub-command, _REW_SPAWNED_BY
    nin,          \* number of chunks parent stdin delivers
    tty,          \* TRUE: parent stdin never reports end-of-stream
    procs,        \* every spawned child process
    pipes,        \* every pipe created for a child's stdin / stdout
    children,     \* eval_pattern's `children` (process ids)
    items,        \* eval_pattern's `items` (EvalItem)
    stdins,       \* eval_pattern's `stdins`, moved into the thread (0 = None)
    pc,           \* main thread position
    bi,           \* index of the pattern item being built
    li,           \* index of the item the output loop is at
    buffer,       \* the output loop's `buffer`
    output,       \* records written to parent stdout
    wi,           \* index of the child the shutdown loops are at
    all_finished, \* eval_pattern's `all_finished`
    result,       \* what eval_pattern returned: "none", "ok", "err"
    errsrc,       \* which operation the returned error came from
    fpc,          \* forwarder thread position
    fj,           \* index of the stdin the forwarder writes next
    chunk,        \* the chunk the forwarder holds
    nread,        \* chunks the forwarder has read from parent stdin
    fres,         \* the thread's result: "none", "ok", "err"
    fwhy,         \* why the thread returned
    delivered,    \* history: chunks written to each entry of stdins
    closedBy,     \* history: entries of stdins taken after a broken pipe
    trywaited,    \* history: children try_wait was called on
    killed,       \* history: children kill was called on
    eos           \* history: the item index whose reader reported end-of-stream

vars == <<args, pattern, bytes, spawned, builder, parser, rew, nin, tty, procs, pipes, children, items, stdins, pc, bi, li,
          buffer, output, wi, all_finished, result, errsrc, fpc, fj, chunk,
          nread, fres, fwhy, delivered, closedBy, trywaited, killed, eos>>

mainVars == <<children, items, stdins, pc, bi, li, buffer, output, wi,
              all_finished, result, errsrc, trywaited, killed, eos>>
fwdVars == <<fpc, fj, chunk, nread, fres, fwhy, delivered, closedBy>>
envVars == <<args, pattern, bytes, spawned, builder, parser, rew, nin, tty>>

----------------------------------------------------------------------------
\* Pattern items (pattern::Item, pattern::Expression, pattern::Command).

Command(name, cargs, external) == [name |-> name, args |-> cargs, external |-> external]

Constant(v) == [type |-> "const", value |-> v, body |-> "none",
                no_stdin |-> FALSE, cmds |-> <<>>]
RawShell(ns) == [type |-> "expr", value |-> "", body |-> "raw",
                 no_stdin |-> ns, cmds |-> <<>>]
Pipeline(ns, cs) == [type |-> "expr", value |-> "", body |-> "pipe",
                     no_stdin |-> ns, cmds |-> cs]

\* Pattern::try_simplify: every Expression is an empty pipeline.
try_simplify(p) ==
    \A i \in 1..Len(p) :
        p[i].type = "expr" => (p[i].body = "pipe" /\ p[i].cmds = <<>>)

\* Pattern::quote_expressions: a Constant holding the quote is put before and
\* after every Expression; Constants are kept.
RECURSIVE quote_expressions(_, _)
quote_expressions(p, quote) ==
    IF p = <<>> THEN <<>>
    ELSE (IF Head(p).type = "expr"
          THEN <<Constant(quote), Head(p), Constant(quote)>>
          ELSE <<Head(p)>>) \o quote_expressions(Tail(p), quote)

\* env::DEFAULT_BUF_SIZE
DEFAULT_BUF_SIZE == 32768

\* The command line of `x`: the parsed pattern, the number of -q flags and
\* the global options --null, --buf-mode ("Line" or "Full") and --buf-size.
Args(p, quote, null, buf_mode, buf_size) ==
    [pattern |-> p, quote |-> quote, null |-> null,
     buf_mode |-> buf_mode, buf_size |-> buf_size]

\* No Spawned handle is looked at.
NoSpawned == [impl |-> "none"]

\* The byte-level view is not used.
NoBytes == [inp |-> <<>>, out |-> <<>>, done |-> FALSE]

\* No pipeline Builder: the specifications that build none.
NoBuilder == [state |-> "none"]

\* No Parser: the specifications that parse no source.
NoParser == [state |-> "none"]

\* The patterns explored.  eval_pattern runs only on patterns that do not
\* simplify, so each has an Expression that is not an empty pipeline.
Patterns ==
    { \* "{!tr -d a}: {upper}"           two Consumers
      <<Pipeline(FALSE, <<Command("tr", <<"-d", "a">>, TRUE)>>), Constant("a"),
        Pipeline(FALSE, <<Command("upper", <<>>, FALSE)>>)>>,
      \* "{seq}. {tr -d aeiou | upper}"  a generator and a two-stage pipeline
      <<Pipeline(FALSE, <<Command("seq", <<>>, FALSE)>>), Constant("b"),
        Pipeline(FALSE, <<Command("tr", <<"-d", "aeiou">>, FALSE),
                          Command("upper", <<>>, FALSE)>>)>>,
      \* "{# printf ...}{}"              a raw shell and the substituted `cat`
      <<RawShell(FALSE), Pipeline(FALSE, <<>>)>>,
      \* "{: !seq 1 3}{:# echo 1}"       no Consumer at all
      <<Pipeline(TRUE, <<Command("seq", <<"1", "3">>, TRUE)>>), RawShell(TRUE)>> }

----------------------------------------------------------------------------
\* Pipes and processes.

NewPipe == [buf |-> <<>>, w |-> TRUE, r |-> TRUE]

CloseW(ps, id) == IF id = 0 THEN ps ELSE [ps EXCEPT ![id].w = FALSE]
CloseR(ps, id) == IF id = 0 THEN ps ELSE [ps EXCEPT ![id].r = FALSE]

\* A spawned process: what it runs (kind: "gen" an internal command of
\* Group::Generators, "int" any other internal command, "ext" an external
\* program; cmd: the program and arguments of its Command), its state and
\* its stdin / stdout pipes (0: the null device).
NewProc(kind, cmd, inp, out) ==
    [kind |-> kind, cmd |-> cmd, st |-> "run", reaped |-> FALSE,
     inp |-> inp, out |-> out, nout |-> 0, pend |-> <<>>]

\* What travels through a pipe: the k-th item written by process p (0: the
\* forwarder), carrying value v.  A chunk of parent stdin carries its number;
\* an "int" command passes the value on; other commands write value 0.
Rec(p, k, v) == [src |-> p, seq |-> k, val |-> v]

----------------------------------------------------------------------------
\* CommandBuilder: the state of build_pipeline's locals while it spawns.
\*   procs, pipes : the process graph so far
\*   children     : the local `children`
\*   stdin, stdout: the local Option handles (pipe id, 0 = None)
\*   no_stdin     : the local `mut no_stdin`
\*   ok           : FALSE once a spawn failed and `?` returned

BuildState(ps, pp, ns) ==
    [procs |-> ps, pipes |-> pp, children |-> <<>>, stdin |-> 0, stdout |-> 0,
     no_stdin |-> ns, ok |-> TRUE]

\* A spawn that fails: `?` drops the locals, which closes the handles they hold.
spawn_failed(b) ==
    [b EXCEPT !.pipes = CloseR(CloseW(b.pipes, b.stdin), b.stdout),
              !.stdin = 0, !.stdout = 0, !.ok = FALSE]

\* The built-in commands (commands::get_meta) and their groups.
get_meta(name) ==
    CASE name = "seq" -> "Generators"
      [] name = "cat" -> "Transformers"
      [] name = "upper" -> "Mappers"
      [] name = "trim" -> "Mappers"
      [] OTHER -> "None"

\* crate_name!()
crate_name == "rew"

\* current_exe()
current_exe == "/bin/rew"

\* An environment without entries.
NoEnv == [n \in {} |-> ""]

\* bool::to_string
bool_to_string(b) == IF b THEN "true" ELSE "false"

\* Display of BufMode
buf_mode_to_string(m) == IF m = "Line" THEN "line" ELSE "full"

\* A string of the environment is the sequence of its words and of the
\* spaces between them: a program name may hold a space, the name of a
\* sub-command never does.
Space == " "

\* Option<OsString>: a variable the environment does not hold, or its value.
Unset == [some |-> FALSE, value |-> <<>>]
Var(value) == [some |-> TRUE, value |-> value]

\* str::rfind(' '): the index of the last space before the end, 0 for None.
rfind(s) ==
    IF \E i \in 1..Len(s) : s[i] = Space
    THEN CHOOSE i \in 1..Len(s) : s[i] = Space /\ \A j \in (i+1)..Len(s) : s[j] # Space
    ELSE 0

\* String::truncate to the bytes in front of index i.
truncate(s, i) == SubSeq(s, 1, i - 1)

\* A rew process: its argv[0], the sub-command it runs, the value of
\* _REW_SPAWNED_BY in its environment, and the sub-commands of the rew
\* processes above it, the topmost first.
Rew(argv0, command, spawned_by, top, ancestors) ==
    [argv0 |-> argv0, command |-> command, spawned_by |-> spawned_by,
     top |-> top, ancestors |-> ancestors]

\* The rew process the user starts: `rew x`, with no _REW_SPAWNED_BY.
TopRew == Rew(<<crate_name>>, "x", Unset, <<crate_name>>, <<>>)

\* Mutant of get_bin_name: the inherited value is passed on whole.
get_bin_name_NoTrim ==
    IF rew.spawned_by.some THEN rew.spawned_by.value ELSE rew.argv0

\* env::get_bin_name: the inherited _REW_SPAWNED_BY without its last word
\* (argv[0] of the parent), or else argv[0] of this process.
get_bin_name ==
    IF rew.spawned_by.some
    THEN IF rfind(rew.spawned_by.value) # 0
         THEN truncate(rew.spawned_by.value, rfind(rew.spawned_by.value))
         ELSE rew.spawned_by.value
    ELSE rew.argv0

\* env::get_spawned_by: format!("{} {cmd_name}", get_bin_name())
get_spawned_by(cmd_name) == get_bin_name \o <<Space, cmd_name>>


\* Mutant of build_internal_command: REW_NULL is not taken from the parent's
\* separator.
build_internal_command_NullFalse(name, cargs) ==
    [program |-> current_exe, args |-> name \o cargs,
     env |-> ("REW_NULL" :> bool_to_string(FALSE))
             @@ ("REW_BUF_MODE" :> buf_mode_to_string(args.buf_mode))
             @@ ("REW_BUF_SIZE" :> ToString(args.buf_size))
             @@ ("_REW_SPAWNED_BY" :> get_spawned_by("x"))]

\* build_internal_command: the current executable, the sub-command name (if
\* any) in front of the arguments, and the global options in the
\* environment.
build_internal_command(name, cargs) ==
    [program |-> current_exe, args |-> name \o cargs,
     env |-> ("REW_NULL" :> bool_to_string(args.null))
             @@ ("REW_BUF_MODE" :> buf_mode_to_string(args.buf_mode))
             @@ ("REW_BUF_SIZE" :> ToString(args.buf_size))
             @@ ("_REW_SPAWNED_BY" :> get_spawned_by("x"))]

\* StdBuf::line_buf_envs: what makes libc programs flush every line.
line_buf_envs == ("LD_PRELOAD" :> "libstdbuf.so") @@ ("_STDBUF_O" :> "L")

\* The external branch of build_command: the program of the command's name
\* with its arguments; in line mode the environment asks libc and Python
\* programs to flush every line.
external_command(params) ==
    [program |-> params.name, args |-> params.args,
     env |-> IF args.buf_mode = "Line"
             THEN line_buf_envs @@ ("PYTHONUNBUFFERED" :> "1")
             ELSE NoEnv]


\* Mutant of build_command: the `external` flag is not looked at.
build_command_IgnoreExternal(params) ==
    IF get_meta(params.name) # "None"
    THEN [command |-> build_internal_command(<<params.name>>, params.args),
          group |-> get_meta(params.name)]
    ELSE IF params.name = crate_name
    THEN IF params.args # <<>> /\ get_meta(Head(params.args)) # "None"
         THEN [command |-> build_internal_command(<<Head(params.args)>>, Tail(params.args)),
               group |-> get_meta(Head(params.args))]
         ELSE [command |-> build_internal_command(<<>>, params.args),
               group |-> "Transformers"]
    ELSE [command |-> external_command(params),
          group |-> "Transformers"]



\* Mutant of build_command: the registry of built-in commands is not looked
\* up for the command's name.
build_command_NoRegistry(params) ==
    IF ~params.external /\ params.name = crate_name
    THEN IF params.args # <<>> /\ get_meta(Head(params.args)) # "None"
         THEN [command |-> build_internal_command(<<Head(params.args)>>, Tail(params.args)),
               group |-> get_meta(Head(params.args))]
         ELSE [command |-> build_internal_command(<<>>, params.args),
               group |-> "Transformers"]
    ELSE [command |-> external_command(params),
          group |-> "Transformers"]

\* Mutant of build_command: a command named as the program itself is not
\* unwrapped; it is re-run with its arguments as an unknown internal command.
build_command_NoUnwrap(params) ==
    IF ~params.external /\ get_meta(params.name) # "None"
    THEN [command |-> build_internal_command(<<params.name>>, params.args),
          group |-> get_meta(params.name)]
    ELSE IF ~params.external /\ params.name = crate_name
    THEN [command |-> build_internal_command(<<>>, params.args),
          group |-> "Transformers"]
    ELSE [command |-> external_command(params),
          group |-> "Transformers"]

\* build_command: the Command to spawn and the Group it is treated as.
build_command(params) ==
    IF ~params.external /\ get_meta(params.name) # "None"
    THEN [command |-> build_internal_command(<<params.name>>, params.args),
          group |-> get_meta(params.name)]
    ELSE IF ~params.external /\ params.name = crate_name
    THEN IF params.args # <<>> /\ get_meta(Head(params.args)) # "None"
         THEN [command |-> build_internal_command(<<Head(params.args)>>, Tail(params.args)),
               group |-> get_meta(Head(params.args))]
         ELSE [command |-> build_internal_command(<<>>, params.args),
               group |-> "Transformers"]
    ELSE [command |-> external_command(params),
          group |-> "Transformers"]


\* Group::stdin_mode
stdin_mode(group) ==
    IF group = "Generators" THEN "Disconnected" ELSE "Connected"

\* How the spawned process behaves.
Kind(built) ==
    IF built.group = "Generators" THEN "gen"
    ELSE IF built.command.program = current_exe THEN "int"
    ELSE "ext"



\* Mutant of pipeline_command: every internal command gets the null device
\* as stdin, whatever its group.
pipeline_command_InternalNull(b, params) ==
    LET built  == build_command(params)
        kind   == Kind(built)
        gen    == built.command.program = current_exe
        piped  == ~gen /\ b.stdout = 0
        pipes1 == IF piped THEN Append(b.pipes, NewPipe) ELSE b.pipes
        inp    == IF gen THEN 0 ELSE IF b.stdout # 0 THEN b.stdout ELSE Len(pipes1)
        pipes2 == Append(pipes1, NewPipe)
        out    == Len(pipes2)
        ns     == b.no_stdin \/ gen
        child  == Len(b.procs) + 1
        pipes3 == IF ns THEN CloseW(pipes2, b.stdin) ELSE pipes2
        pipes4 == IF gen THEN CloseR(pipes3, b.stdout) ELSE pipes3
    IN  [b EXCEPT !.procs = Append(b.procs, NewProc(kind, built.command, inp, out)),
                  !.pipes = pipes4,
                  !.children = Append(b.children, child),
                  !.no_stdin = ns,
                  !.stdin = IF ns THEN 0
                            ELSE IF b.stdin = 0 THEN (IF piped THEN inp ELSE 0)
                            ELSE b.stdin,
                  !.stdout = out]

\* Mutant of pipeline_command: a command that is not a Generator always gets
\* a new pipe as stdin, also when a previous stdout is there.
pipeline_command_NoChain(b, params) ==
    LET built  == build_command(params)
        kind   == Kind(built)
        gen    == built.group = "Generators"
        piped  == ~gen
        pipes1 == IF piped THEN Append(b.pipes, NewPipe) ELSE b.pipes
        inp    == IF gen THEN 0 ELSE Len(pipes1)
        pipes2 == Append(pipes1, NewPipe)
        out    == Len(pipes2)
        ns     == b.no_stdin \/ gen
        child  == Len(b.procs) + 1
        pipes3 == IF ns THEN CloseW(pipes2, b.stdin) ELSE pipes2
        pipes4 == CloseR(pipes3, b.stdout)
    IN  [b EXCEPT !.procs = Append(b.procs, NewProc(kind, built.command, inp, out)),
                  !.pipes = pipes4,
                  !.children = Append(b.children, child),
                  !.no_stdin = ns,
                  !.stdin = IF ns THEN 0
                            ELSE IF b.stdin = 0 THEN (IF piped THEN inp ELSE 0)
                            ELSE b.stdin,
                  !.stdout = out]

\* One iteration of build_pipeline's loop for the command `params`.
pipeline_command(b, params) ==
    LET built  == build_command(params)
        kind   == Kind(built)
        gen    == built.group = "Generators"
        piped  == ~gen /\ b.stdout = 0
        pipes1 == IF piped THEN Append(b.pipes, NewPipe) ELSE b.pipes
        inp    == IF gen THEN 0 ELSE IF b.stdout # 0 THEN b.stdout ELSE Len(pipes1)
        pipes2 == Append(pipes1, NewPipe)
        out    == Len(pipes2)
        ns     == b.no_stdin \/ gen
        child  == Len(b.procs) + 1
        \* `stdin = None` drops a handle captured earlier
        pipes3 == IF ns THEN CloseW(pipes2, b.stdin) ELSE pipes2
        \* `stdout = child.take_stdout()` drops a previous stdout that was not
        \* moved into the command
        pipes4 == IF gen THEN CloseR(pipes3, b.stdout) ELSE pipes3
    IN  [b EXCEPT !.procs = Append(b.procs, NewProc(kind, built.command, inp, out)),
                  !.pipes = pipes4,
                  !.children = Append(b.children, child),
                  !.no_stdin = ns,
                  !.stdin = IF ns THEN 0
                            ELSE IF b.stdin = 0 THEN (IF piped THEN inp ELSE 0)
                            ELSE b.stdin,
                  !.stdout = out]


\* Mutant of default_internal_command: the `cat` stage is spawned with the
\* null device as stdin.
default_internal_command_Null(b) ==
    LET pipes1 == Append(b.pipes, NewPipe)
        out    == Len(pipes1)
    IN  [b EXCEPT !.procs = Append(b.procs,
                        NewProc("int", build_internal_command(<<"cat">>, <<>>), 0, out)),
                  !.pipes = pipes1,
                  !.stdin = 0,
                  !.stdout = out]

\* The `cat` stage build_pipeline substitutes when the loop left no stdout.
\* The child handle is a local of the `if` block: it is not pushed to children.
default_internal_command(b) ==
    LET pipes1 == Append(Append(b.pipes, NewPipe), NewPipe)
        inp    == Len(pipes1) - 1
        out    == Len(pipes1)
    IN  [b EXCEPT !.procs = Append(b.procs,
                        NewProc("int", build_internal_command(<<"cat">>, <<>>), inp, out)),
                  !.pipes = pipes1,
                  !.stdin = inp,
                  !.stdout = out]

RECURSIVE pipeline_loop(_, _, _, _)
pipeline_loop(b, cmds, i, f) ==
    IF i > Len(cmds) THEN b
    ELSE IF i = f THEN spawn_failed(b)
    ELSE pipeline_loop(pipeline_command(b, cmds[i]), cmds, i + 1, f)

\* build_pipeline; f is the index of the spawn that fails (0: none does).
build_pipeline(ps, pp, cmds, ns, f) ==
    LET b == pipeline_loop(BuildState(ps, pp, ns), cmds, 1, f)
    IN  IF ~b.ok THEN b
        ELSE IF b.stdout # 0 THEN b
        ELSE IF f = 1 THEN spawn_failed(b)
        ELSE default_internal_command(b)

\* self.shell.build_command(shell_command)
shell_build_command == [program |-> "sh", args |-> <<"-c", "raw">>, env |-> NoEnv]

\* build_raw_shell: one shell process, stdin piped unless no_stdin.
build_raw_shell(ps, pp, ns, f) ==
    LET b      == BuildState(ps, pp, ns)
        pipes1 == IF ns THEN pp ELSE Append(pp, NewPipe)
        inp    == IF ns THEN 0 ELSE Len(pipes1)
        pipes2 == Append(pipes1, NewPipe)
        out    == Len(pipes2)
    IN  IF f = 1 THEN spawn_failed(b)
        ELSE [b EXCEPT !.procs = Append(ps, NewProc("ext", shell_build_command, inp, out)),
                       !.pipes = pipes2,
                       !.children = <<Len(ps) + 1>>,
                       !.stdin = inp,
                       !.stdout = out]

build_expression(ps, pp, expr, f) ==
    IF expr.body = "raw"
    THEN build_raw_shell(ps, pp, expr.no_stdin, f)
    ELSE build_pipeline(ps, pp, expr.cmds, expr.no_stdin, f)

\* Number of spawns an expression performs.
Spawns(expr) ==
    IF expr.body = "raw" \/ expr.cmds = <<>> THEN 1 ELSE Len(expr.cmds)

----------------------------------------------------------------------------
Init ==
    /\ pattern \in {p \in Patterns : ~try_simplify(p)}
    /\ args = Args(pattern, 0, FALSE, "Full", DEFAULT_BUF_SIZE)
    /\ bytes = NoBytes
    /\ spawned = NoSpawned
    /\ builder = NoBuilder
    /\ parser = NoParser
    /\ rew = TopRew
    /\ nin \in 0..MaxIn
    /\ tty \in BOOLEAN
    /\ procs = <<>>
    /\ pipes = <<>>
    /\ children = <<>>
    /\ items = <<>>
    /\ stdins = <<>>
    /\ pc = "build"
    /\ bi = 1
    /\ li = 1
    /\ buffer = <<>>
    /\ output = <<>>
    /\ wi = 1
    /\ all_finished = TRUE
    /\ result = "none"
    /\ errsrc = "none"
    /\ fpc = "none"
    /\ fj = 1
    /\ chunk = 0
    /\ nread = 0
    /\ fres = "none"
    /\ fwhy = "none"
    /\ delivered = <<>>
    /\ closedBy = {}
    /\ trywaited = {}
    /\ killed = {}
    /\ eos = 0

\* The invocation is over once eval_pattern has returned.
Alive == pc # "done"

\* `return Err(..)` / `?` out of eval_pattern.
ReturnErr(src) ==
    /\ result' = "err"
    /\ errsrc' = src
    /\ pc' = "done"

----------------------------------------------------------------------------
\* eval_pattern: "Build and spawn child process pipelines."

BuildConstant ==
    /\ pc = "build"
    /\ bi <= Len(pattern)
    /\ pattern[bi].type = "const"
    /\ items' = Append(items, [type |-> "const", value |-> pattern[bi].value, pipe |-> 0])
    /\ bi' = bi + 1
    /\ UNCHANGED <<envVars, fwdVars, procs, pipes, children, stdins, pc, li, buffer,
                   output, wi, all_finished, result, errsrc, trywaited, killed, eos>>

BuildExpression ==
    /\ pc = "build"
    /\ bi <= Len(pattern)
    /\ pattern[bi].type = "expr"
    /\ \E f \in 0..Spawns(pattern[bi]) :
         LET b == build_expression(procs, pipes, pattern[bi], f) IN
         /\ procs' = b.procs
         /\ pipes' = b.pipes
         /\ IF b.ok
            THEN /\ children' = children \o b.children
                 /\ items' = Append(items, [type |-> "reader", value |-> "", pipe |-> b.stdout])
                 /\ stdins' = IF b.stdin # 0
                              THEN Append(stdins, [pipe |-> b.stdin, some |-> TRUE])
                              ELSE stdins
                 /\ delivered' = IF b.stdin # 0 THEN Append(delivered, <<>>) ELSE delivered
                 /\ bi' = bi + 1
                 /\ UNCHANGED <<pc, result, errsrc>>
            ELSE /\ ReturnErr("build")
                 /\ UNCHANGED <<children, items, stdins, delivered, bi>>
    /\ UNCHANGED <<envVars, li, buffer, output, wi, all_finished, trywaited, killed,
                   eos, fpc, fj, chunk, nread, fres, fwhy, closedBy>>

\* thread::spawn(move || ...): stdins moves into the forwarder thread.
SpawnThread ==
    /\ pc = "build"
    /\ bi > Len(pattern)
    /\ pc' = "loop"
    /\ li' = 1
    /\ fpc' = "start"
    /\ UNCHANGED <<envVars, procs, pipes, children, items, stdins, bi, buffer, output,
                   wi, all_finished, result, errsrc, trywaited, killed, eos,
                   fj, chunk, nread, fres, fwhy, delivered, closedBy>>

----------------------------------------------------------------------------
\* The "reader" thread which forwards main process stdin to every child.

AllNone(ss) == \A j \in 1..Len(ss) : ~ss[j].some

\* Dropping the closure's `stdins` closes every handle still held.
DropStdins(pp, ss) ==
    [q \in DOMAIN pp |->
        IF \E j \in 1..Len(ss) : ss[j].some /\ ss[j].pipe = q
        THEN [pp[q] EXCEPT !.w = FALSE]
        ELSE pp[q]]


\* Mutant of ThreadReturn: the stdin handles outlive the closure.
ThreadReturn_NoDrop(res, why) ==
    /\ fpc' = "done"
    /\ fres' = res
    /\ fwhy' = why
    /\ pipes' = pipes

\* The closure returns: its result is stored and its captures are dropped.
ThreadReturn(res, why) ==
    /\ fpc' = "done"
    /\ fres' = res
    /\ fwhy' = why
    /\ pipes' = DropStdins(pipes, stdins)

FwdStart ==
    /\ Alive
    /\ fpc = "start"
    /\ IF AllNone(stdins)
       THEN ThreadReturn("ok", "noconsumer")
       ELSE /\ fpc' = "read"
            /\ UNCHANGED <<fres, fwhy, pipes>>
    /\ UNCHANGED <<envVars, mainVars, procs, fj, chunk, nread, delivered, closedBy>>

\* reader.read_chunk()? yields the next chunk.
FwdReadChunk ==
    /\ Alive
    /\ fpc = "read"
    /\ nread < nin
    /\ chunk' = nread + 1
    /\ nread' = nread + 1
    /\ fj' = 1
    /\ fpc' = "write"
    /\ UNCHANGED <<envVars, mainVars, procs, pipes, fres, fwhy, delivered, closedBy>>

\* reader.read_chunk()? yields None: parent stdin is exhausted.
FwdReadEnd ==
    /\ Alive
    /\ fpc = "read"
    /\ nread = nin
    /\ ~tty
    /\ ThreadReturn("ok", "exhausted")
    /\ UNCHANGED <<envVars, mainVars, procs, fj, chunk, nread, delivered, closedBy>>

\* reader.read_chunk()? fails.
FwdReadError ==
    /\ Alive
    /\ fpc = "read"
    /\ ThreadReturn("err", "ioerror")
    /\ UNCHANGED <<envVars, mainVars, procs, fj, chunk, nread, delivered, closedBy>>



\* Mutant of FwdWrite: a broken pipe on one stdin takes every stdin.
FwdWrite_TakeAll ==
    /\ Alive
    /\ fpc = "write"
    /\ fj <= Len(stdins)
    /\ LET q == stdins[fj].pipe IN
       IF ~stdins[fj].some
       THEN UNCHANGED <<stdins, pipes, delivered, closedBy>>
       ELSE IF ~pipes[q].r
       THEN /\ stdins' = [j \in 1..Len(stdins) |-> [stdins[j] EXCEPT !.some = FALSE]]
            /\ pipes' = DropStdins(pipes, stdins)
            /\ closedBy' = closedBy \cup {fj}
            /\ UNCHANGED delivered
       ELSE /\ Len(pipes[q].buf) < PipeCap
            /\ pipes' = [pipes EXCEPT ![q].buf = Append(@, Rec(0, chunk, chunk))]
            /\ delivered' = [delivered EXCEPT ![fj] = Append(@, chunk)]
            /\ UNCHANGED <<stdins, closedBy>>
    /\ fj' = fj + 1
    /\ UNCHANGED <<envVars, procs, children, items, pc, bi, li, buffer, output, wi,
                   all_finished, result, errsrc, trywaited, killed, eos,
                   fpc, chunk, nread, fres, fwhy>>

\* Mutant of FwdWrite: a chunk is dropped instead of waiting for a full pipe.
FwdWrite_SkipFull ==
    /\ Alive
    /\ fpc = "write"
    /\ fj <= Len(stdins)
    /\ LET q == stdins[fj].pipe IN
       IF ~stdins[fj].some
       THEN UNCHANGED <<stdins, pipes, delivered, closedBy>>
       ELSE IF ~pipes[q].r
       THEN /\ stdins' = [stdins EXCEPT ![fj].some = FALSE]
            /\ pipes' = CloseW(pipes, q)
            /\ closedBy' = closedBy \cup {fj}
            /\ UNCHANGED delivered
       ELSE IF Len(pipes[q].buf) < PipeCap
       THEN /\ pipes' = [pipes EXCEPT ![q].buf = Append(@, Rec(0, chunk, chunk))]
            /\ delivered' = [delivered EXCEPT ![fj] = Append(@, chunk)]
            /\ UNCHANGED <<stdins, closedBy>>
       ELSE UNCHANGED <<stdins, pipes, delivered, closedBy>>
    /\ fj' = fj + 1
    /\ UNCHANGED <<envVars, procs, children, items, pc, bi, li, buffer, output, wi,
                   all_finished, result, errsrc, trywaited, killed, eos,
                   fpc, chunk, nread, fres, fwhy>>

\* The body of `for stdin in &mut stdins` for the entry at fj.
FwdWrite ==
    /\ Alive
    /\ fpc = "write"
    /\ fj <= Len(stdins)
    /\ LET q == stdins[fj].pipe IN
       IF ~stdins[fj].some
       THEN UNCHANGED <<stdins, pipes, delivered, closedBy>>
       ELSE IF ~pipes[q].r
       THEN \* write_all returned Ok(false): stdin.take()
            /\ stdins' = [stdins EXCEPT ![fj].some = FALSE]
            /\ pipes' = CloseW(pipes, q)
            /\ closedBy' = closedBy \cup {fj}
            /\ UNCHANGED delivered
       ELSE /\ Len(pipes[q].buf) < PipeCap
            /\ pipes' = [pipes EXCEPT ![q].buf = Append(@, Rec(0, chunk, chunk))]
            /\ delivered' = [delivered EXCEPT ![fj] = Append(@, chunk)]
            /\ UNCHANGED <<stdins, closedBy>>
    /\ fj' = fj + 1
    /\ UNCHANGED <<envVars, procs, children, items, pc, bi, li, buffer, output, wi,
                   all_finished, result, errsrc, trywaited, killed, eos,
                   fpc, chunk, nread, fres, fwhy>>

\* writer.write_all(chunk)? fails with an error other than broken pipe.
FwdWriteError ==
    /\ Alive
    /\ fpc = "write"
    /\ fj <= Len(stdins)
    /\ stdins[fj].some
    /\ pipes[stdins[fj].pipe].r
    /\ ThreadReturn("err", "ioerror")
    /\ UNCHANGED <<envVars, mainVars, procs, fj, chunk, nread, delivered, closedBy>>


\* Mutant of FwdCheck: the loop goes on reading although every stdin is closed.
FwdCheck_NoBreak ==
    /\ Alive
    /\ fpc = "write"
    /\ fj > Len(stdins)
    /\ fpc' = "read"
    /\ UNCHANGED <<fres, fwhy, pipes>>
    /\ UNCHANGED <<envVars, mainVars, procs, fj, chunk, nread, delivered, closedBy>>

\* `if stdins.iter().all(Option::is_none) { break; }` after the for loop.
FwdCheck ==
    /\ Alive
    /\ fpc = "write"
    /\ fj > Len(stdins)
    /\ IF AllNone(stdins)
       THEN ThreadReturn("ok", "allclosed")
       ELSE /\ fpc' = "read"
            /\ UNCHANGED <<fres, fwhy, pipes>>
    /\ UNCHANGED <<envVars, mainVars, procs, fj, chunk, nread, delivered, closedBy>>

----------------------------------------------------------------------------
\* eval_pattern: "Combine output from stdout of every child process."

LoopConstant ==
    /\ pc = "loop"
    /\ li <= Len(items)
    /\ items[li].type = "const"
    /\ buffer' = Append(buffer, items[li].value)
    /\ li' = li + 1
    /\ UNCHANGED <<envVars, fwdVars, procs, pipes, children, items, stdins, pc, bi,
                   output, wi, all_finished, result, errsrc, trywaited, killed, eos>>


\* Mutant of LoopRead: at end-of-stream the partly composed record is written
\* before the loop is left.
LoopRead_FlushPartial ==
    /\ pc = "loop"
    /\ li <= Len(items)
    /\ items[li].type = "reader"
    /\ LET q == items[li].pipe IN
       IF pipes[q].buf # <<>>
       THEN /\ buffer' = Append(buffer, Head(pipes[q].buf))
            /\ pipes' = [pipes EXCEPT ![q].buf = Tail(@)]
            /\ li' = li + 1
            /\ UNCHANGED <<pc, wi, eos, output>>
       ELSE /\ ~pipes[q].w
            /\ pc' = "wait1"
            /\ wi' = 1
            /\ eos' = li
            /\ output' = Append(output, buffer)
            /\ UNCHANGED <<buffer, pipes, li>>
    /\ UNCHANGED <<envVars, fwdVars, procs, children, items, stdins, bi,
                   all_finished, result, errsrc, trywaited, killed>>

\* reader.read_line()? on a child's stdout: a record, or None at end-of-stream.
\* The call blocks while the pipe is empty and its write end is open.
LoopRead ==
    /\ pc = "loop"
    /\ li <= Len(items)
    /\ items[li].type = "reader"
    /\ LET q == items[li].pipe IN
       IF pipes[q].buf # <<>>
       THEN /\ buffer' = Append(buffer, Head(pipes[q].buf))
            /\ pipes' = [pipes EXCEPT ![q].buf = Tail(@)]
            /\ li' = li + 1
            /\ UNCHANGED <<pc, wi, eos>>
       ELSE /\ ~pipes[q].w
            /\ pc' = "wait1"      \* break 'outer
            /\ wi' = 1
            /\ eos' = li
            /\ UNCHANGED <<buffer, pipes, li>>
    /\ UNCHANGED <<envVars, fwdVars, procs, children, items, stdins, bi, output,
                   all_finished, result, errsrc, trywaited, killed>>

\* reader.read_line()? fails (an IO error, or a record over the buffer size).
LoopReadError ==
    /\ pc = "loop"
    /\ li <= Len(items)
    /\ items[li].type = "reader"
    /\ pipes[items[li].pipe].buf # <<>>
    /\ ReturnErr("read")
    /\ UNCHANGED <<envVars, fwdVars, procs, pipes, children, items, stdins, bi, li,
                   buffer, output, wi, all_finished, trywaited, killed, eos>>


\* Mutant of LoopWrite: the loop is left for the shutdown once a record is
\* written.
LoopWrite_Once ==
    /\ pc = "loop"
    /\ li > Len(items)
    /\ Len(output) < MaxOut
    /\ output' = Append(output, buffer)
    /\ buffer' = <<>>
    /\ li' = 1
    /\ pc' = "wait1"
    /\ wi' = 1
    /\ UNCHANGED <<envVars, fwdVars, procs, pipes, children, items, stdins, bi,
                   all_finished, result, errsrc, trywaited, killed, eos>>

\* Mutant of LoopWrite: the buffer is not cleared after the record is written.
LoopWrite_NoClear ==
    /\ pc = "loop"
    /\ li > Len(items)
    /\ Len(output) < MaxOut
    /\ output' = Append(output, buffer)
    /\ li' = 1
    /\ UNCHANGED <<envVars, fwdVars, procs, pipes, children, items, stdins, pc, bi,
                   buffer, wi, all_finished, result, errsrc, trywaited, killed, eos>>

\* writer.write_line(&buffer)?; buffer.clear();  The run is followed up to
\* MaxOut records written.
LoopWrite ==
    /\ pc = "loop"
    /\ li > Len(items)
    /\ Len(output) < MaxOut
    /\ output' = Append(output, buffer)
    /\ buffer' = <<>>
    /\ li' = 1
    /\ UNCHANGED <<envVars, fwdVars, procs, pipes, children, items, stdins, pc, bi,
                   wi, all_finished, result, errsrc, trywaited, killed, eos>>

\* writer.write_line(&buffer)? fails.
LoopWriteError ==
    /\ pc = "loop"
    /\ li > Len(items)
    /\ ReturnErr("write")
    /\ UNCHANGED <<envVars, fwdVars, procs, pipes, children, items, stdins, bi, li,
                   buffer, output, wi, all_finished, trywaited, killed, eos>>

----------------------------------------------------------------------------
\* eval_pattern: "Make sure all child processes are terminated."

\* A process that ends closes its ends of its pipes.
Ended(pp, p) == CloseW(CloseR(pp, procs[p].inp), procs[p].out)

\* Eval<Child>::try_wait on children[wi]: Ok(false) while it runs, Ok(true)
\* after a successful exit, Err after an unsuccessful one.  A child that has
\* exited is reaped by the call.
TryWait(next) ==
    LET c == children[wi] IN
    /\ trywaited' = trywaited \cup {c}
    /\ IF procs[c].st = "run"
       THEN /\ next
            /\ UNCHANGED <<procs, result, errsrc>>
       ELSE /\ procs' = [procs EXCEPT ![c].reaped = TRUE]
            /\ IF procs[c].st = "ok"
               THEN /\ wi' = wi + 1
                    /\ UNCHANGED <<pc, all_finished, result, errsrc>>
               ELSE /\ ReturnErr("trywait")
                    /\ UNCHANGED <<wi, all_finished>>

\* First pass: `if !child.try_wait()? { all_finished = false; }`
TryWait1 ==
    /\ pc = "wait1"
    /\ wi <= Len(children)
    /\ TryWait(/\ all_finished' = FALSE
               /\ wi' = wi + 1
               /\ UNCHANGED pc)
    /\ UNCHANGED <<envVars, fwdVars, pipes, children, items, stdins, bi, li, buffer,
                   output, killed, eos>>

\* `if !all_finished { thread::sleep(100 ms); ... }`
EndWait1 ==
    /\ pc = "wait1"
    /\ wi > Len(children)
    /\ pc' = IF all_finished THEN "join" ELSE "wait2"
    /\ wi' = 1
    /\ UNCHANGED <<envVars, fwdVars, procs, pipes, children, items, stdins, bi, li,
                   buffer, output, all_finished, result, errsrc, trywaited, killed, eos>>

\* Second pass: `if !child.try_wait()? { child.kill()?; }`
TryWait2 ==
    /\ pc = "wait2"
    /\ wi <= Len(children)
    /\ TryWait(/\ pc' = "kill"
               /\ UNCHANGED <<wi, all_finished>>)
    /\ UNCHANGED <<envVars, fwdVars, pipes, children, items, stdins, bi, li, buffer,
                   output, killed, eos>>

\* Eval<Child>::kill on children[wi].
Kill ==
    /\ pc = "kill"
    /\ LET c == children[wi] IN
       /\ killed' = killed \cup {c}
       /\ IF procs[c].st = "run"
          THEN /\ procs' = [procs EXCEPT ![c].st = "killed"]
               /\ pipes' = Ended(pipes, c)
          ELSE UNCHANGED <<procs, pipes>>
    /\ pc' = "wait2"
    /\ wi' = wi + 1
    /\ UNCHANGED <<envVars, fwdVars, children, items, stdins, bi, li, buffer, output,
                   all_finished, result, errsrc, trywaited, eos>>

EndWait2 ==
    /\ pc = "wait2"
    /\ wi > Len(children)
    /\ pc' = "join"
    /\ UNCHANGED <<envVars, fwdVars, procs, pipes, children, items, stdins, bi, li,
                   buffer, output, wi, all_finished, result, errsrc, trywaited,
                   killed, eos>>

\* Mutant of Join: the thread is joined whether or not it has finished.
Join_Blocking ==
    /\ pc = "join"
    /\ fpc = "done"
    /\ pc' = "done"
    /\ IF fres = "err"
       THEN /\ result' = "err"
            /\ errsrc' = "thread"
       ELSE /\ result' = "ok"
            /\ UNCHANGED errsrc
    /\ UNCHANGED <<envVars, fwdVars, procs, pipes, children, items, stdins, bi, li,
                   buffer, output, wi, all_finished, trywaited, killed, eos>>

\* `if thread.is_finished() { thread.join()...?? }  Ok(())`
Join ==
    /\ pc = "join"
    /\ pc' = "done"
    /\ IF fpc = "done" /\ fres = "err"
       THEN /\ result' = "err"
            /\ errsrc' = "thread"
       ELSE /\ result' = "ok"
            /\ UNCHANGED errsrc
    /\ UNCHANGED <<envVars, fwdVars, procs, pipes, children, items, stdins, bi, li,
                   buffer, output, wi, all_finished, trywaited, killed, eos>>

----------------------------------------------------------------------------
\* The child processes (the environment of eval_pattern).
\*   "int": reads one chunk, writes one record for it, exits at end of input
\*   "gen": never reads; writes up to MaxRec records and exits
\*   "ext": may read, write up to MaxRec records and exit at any time, with
\*          any status

Running(p) == Alive /\ procs[p].st = "run"

AtEof(p) ==
    \/ procs[p].inp = 0
    \/ pipes[procs[p].inp].buf = <<>> /\ ~pipes[procs[p].inp].w


\* Mutant of ChildRead: an internal command forgets what it has read.
ChildRead_DropValue(p) ==
    /\ Running(p)
    /\ procs[p].kind \in {"int", "ext"}
    /\ procs[p].inp # 0
    /\ procs[p].pend = <<>>
    /\ pipes[procs[p].inp].buf # <<>>
    /\ procs' = [procs EXCEPT ![p].pend =
                    IF procs[p].kind = "int" THEN <<0>> ELSE <<>>]
    /\ pipes' = [pipes EXCEPT ![procs[p].inp].buf = Tail(@)]
    /\ UNCHANGED <<envVars, mainVars, fwdVars>>

ChildRead(p) ==
    /\ Running(p)
    /\ procs[p].kind \in {"int", "ext"}
    /\ procs[p].inp # 0
    /\ procs[p].pend = <<>>
    /\ pipes[procs[p].inp].buf # <<>>
    /\ procs' = [procs EXCEPT ![p].pend =
                    IF procs[p].kind = "int" THEN <<Head(pipes[procs[p].inp].buf).val>> ELSE <<>>]
    /\ pipes' = [pipes EXCEPT ![procs[p].inp].buf = Tail(@)]
    /\ UNCHANGED <<envVars, mainVars, fwdVars>>

ChildWrite(p) ==
    /\ Running(p)
    /\ IF procs[p].kind = "int" THEN procs[p].pend # <<>> ELSE procs[p].nout < MaxRec
    /\ LET q == procs[p].out IN
       IF ~pipes[q].r
       THEN \* nobody reads the pipe any more: the writer dies of SIGPIPE
            /\ procs' = [procs EXCEPT ![p].st = "fail"]
            /\ pipes' = Ended(pipes, p)
       ELSE /\ Len(pipes[q].buf) < PipeCap
            /\ pipes' = [pipes EXCEPT ![q].buf =
                            Append(@, Rec(p, procs[p].nout + 1,
                                          IF procs[p].pend # <<>> THEN procs[p].pend[1] ELSE 0))]
            /\ procs' = [procs EXCEPT ![p].nout = @ + 1, ![p].pend = <<>>]
    /\ UNCHANGED <<envVars, mainVars, fwdVars>>

ChildExit(p, status) ==
    /\ Running(p)
    /\ CASE procs[p].kind = "int" -> status = "ok" /\ procs[p].pend = <<>> /\ AtEof(p)
         [] procs[p].kind = "gen" -> status = "ok"
         [] OTHER -> TRUE
    /\ procs' = [procs EXCEPT ![p].st = status]
    /\ pipes' = Ended(pipes, p)
    /\ UNCHANGED <<envVars, mainVars, fwdVars>>

Child ==
    \E p \in 1..Len(procs) :
        \/ ChildRead(p)
        \/ ChildWrite(p)
        \/ \E status \in {"ok", "fail"} : ChildExit(p, status)

----------------------------------------------------------------------------
Main ==
    \/ BuildConstant \/ BuildExpression \/ SpawnThread
    \/ LoopConstant \/ LoopRead \/ LoopReadError \/ LoopWrite \/ LoopWriteError
    \/ TryWait1 \/ EndWait1 \/ TryWait2 \/ Kill \/ EndWait2 \/ Join

Forwarder ==
    \/ FwdStart \/ FwdReadChunk \/ FwdReadEnd \/ FwdReadError
    \/ FwdWrite \/ FwdWriteError \/ FwdCheck

Next == Main \/ Forwarder \/ Child

Spec == Init /\ [][Next]_vars

----------------------------------------------------------------------------
\* run: a pattern that simplifies is evaluated by eval_simple_pattern, with
\* no child process and no thread.  On this path nread counts the records
\* read from parent stdin (record k is Rec(0, k, k)), li is the position in
\* `pattern.items()` and buffer holds what was written since the last
\* separator.

\* Patterns in which every Expression is `{}`.
SimplePatterns ==
    { \* "{}"
      <<Pipeline(FALSE, <<>>)>>,
      \* "{}a{}"
      <<Pipeline(FALSE, <<>>), Constant("a"), Pipeline(FALSE, <<>>)>>,
      \* "b{}"
      <<Constant("b"), Pipeline(FALSE, <<>>)>> }

\* The patterns `run` is explored with: the simple ones, and one that does
\* not simplify although it holds a `{}`.
RunPatterns == SimplePatterns \cup {<<RawShell(FALSE), Pipeline(FALSE, <<>>)>>}

\* What eval_simple_pattern writes for the record with value v.
SimpleRecord(p, v) ==
    [i \in 1..Len(p) |-> IF p[i].type = "const" THEN p[i].value ELSE v]

\* `while let Some(line) = reader.read_line()?` yields the next record.
SimpleReadLine ==
    /\ pc = "simple"
    /\ nread < nin
    /\ nread' = nread + 1
    /\ li' = 1
    /\ pc' = "swrite"
    /\ UNCHANGED <<envVars, procs, pipes, children, items, stdins, bi, buffer, output,
                   wi, all_finished, result, errsrc, trywaited, killed, eos,
                   fpc, fj, chunk, fres, fwhy, delivered, closedBy>>

\* reader.read_line()? yields None: `Ok(())`.
SimpleReadEnd ==
    /\ pc = "simple"
    /\ nread = nin
    /\ ~tty
    /\ result' = "ok"
    /\ pc' = "done"
    /\ UNCHANGED <<envVars, fwdVars, procs, pipes, children, items, stdins, bi, li,
                   buffer, output, wi, all_finished, errsrc, trywaited, killed, eos>>

\* reader.read_line()? fails.
SimpleReadError ==
    /\ pc = "simple"
    /\ ReturnErr("read")
    /\ UNCHANGED <<envVars, fwdVars, procs, pipes, children, items, stdins, bi, li,
                   buffer, output, wi, all_finished, trywaited, killed, eos>>


\* Mutant of SimpleWrite: an Expression item writes nothing.
SimpleWrite_ConstantsOnly ==
    /\ pc = "swrite"
    /\ li <= Len(pattern)
    /\ buffer' = IF pattern[li].type = "const"
                 THEN Append(buffer, pattern[li].value)
                 ELSE buffer
    /\ li' = li + 1
    /\ UNCHANGED <<envVars, fwdVars, procs, pipes, children, items, stdins, pc, bi,
                   output, wi, all_finished, result, errsrc, trywaited, killed, eos>>

\* The body of `for item in pattern.items()` for the item at li.
SimpleWrite ==
    /\ pc = "swrite"
    /\ li <= Len(pattern)
    /\ buffer' = Append(buffer, IF pattern[li].type = "const"
                                THEN pattern[li].value
                                ELSE Rec(0, nread, nread))
    /\ li' = li + 1
    /\ UNCHANGED <<envVars, fwdVars, procs, pipes, children, items, stdins, pc, bi,
                   output, wi, all_finished, result, errsrc, trywaited, killed, eos>>

\* writer.write_separator()? ends the output record.
SimpleWriteSeparator ==
    /\ pc = "swrite"
    /\ li > Len(pattern)
    /\ output' = Append(output, buffer)
    /\ buffer' = <<>>
    /\ pc' = "simple"
    /\ UNCHANGED <<envVars, fwdVars, procs, pipes, children, items, stdins, bi, li,
                   wi, all_finished, result, errsrc, trywaited, killed, eos>>

\* writer.write(..)? or writer.write_separator()? fails.
SimpleWriteError ==
    /\ pc = "swrite"
    /\ ReturnErr("write")
    /\ UNCHANGED <<envVars, fwdVars, procs, pipes, children, items, stdins, bi, li,
                   buffer, output, wi, all_finished, trywaited, killed, eos>>

Simple ==
    \/ SimpleReadLine \/ SimpleReadEnd \/ SimpleReadError
    \/ SimpleWrite \/ SimpleWriteSeparator \/ SimpleWriteError

\* The number of -q flags `run` is explored with.
MaxQuote == 2


\* Mutant of Run: the single quote is used however many -q are given.
Run_SingleQuote ==
    /\ pc = "run"
    /\ pattern' = IF args.quote > 0
                  THEN quote_expressions(args.pattern, "'")
                  ELSE args.pattern
    /\ pc' \in IF try_simplify(pattern') THEN {"simple", "build"} ELSE {"build"}
    /\ UNCHANGED <<args, bytes, spawned, builder, parser, rew, nin, tty, fwdVars, procs, pipes, children, items, stdins,
                   bi, li, buffer, output, wi, all_finished, result, errsrc,
                   trywaited, killed, eos>>

\* run: with -q every Expression of the pattern is quoted, with the single
\* quote for one -q and the double quote for more; then the pattern is
\* evaluated.  run starts eval_simple_pattern only with a pattern that
\* simplifies; eval_pattern is explored with every pattern, also with those
\* that simplify, so that the two evaluations of one pattern can be compared.
Run ==
    /\ pc = "run"
    /\ pattern' = IF args.quote > 0
                  THEN quote_expressions(args.pattern,
                                         IF args.quote > 1 THEN "\"" ELSE "'")
                  ELSE args.pattern
    /\ pc' \in IF try_simplify(pattern') THEN {"simple", "build"} ELSE {"build"}
    /\ UNCHANGED <<args, bytes, spawned, builder, parser, rew, nin, tty, fwdVars, procs, pipes, children, items, stdins,
                   bi, li, buffer, output, wi, all_finished, result, errsrc,
                   trywaited, killed, eos>>

InitRun ==
    /\ args \in {Args(p, q, FALSE, "Full", DEFAULT_BUF_SIZE) :
                     p \in RunPatterns, q \in 0..MaxQuote}
    /\ pattern = args.pattern
    /\ bytes = NoBytes
    /\ spawned = NoSpawned
    /\ builder = NoBuilder
    /\ parser = NoParser
    /\ rew = TopRew
    /\ pc = "run"
    /\ nin \in 0..MaxIn
    /\ tty \in BOOLEAN
    /\ procs = <<>>
    /\ pipes = <<>>
    /\ children = <<>>
    /\ items = <<>>
    /\ stdins = <<>>
    /\ bi = 1
    /\ li = 1
    /\ buffer = <<>>
    /\ output = <<>>
    /\ wi = 1
    /\ all_finished = TRUE
    /\ result = "none"
    /\ errsrc = "none"
    /\ fpc = "none"
    /\ fj = 1
    /\ chunk = 0
    /\ nread = 0
    /\ fres = "none"
    /\ fwhy = "none"
    /\ delivered = <<>>
    /\ closedBy = {}
    /\ trywaited = {}
    /\ killed = {}
    /\ eos = 0

NextRun == Run \/ Main \/ Forwarder \/ Child \/ Simple

SpecRun == InitRun /\ [][NextRun]_vars

----------------------------------------------------------------------------
\* CommandBuilder explored on its own: build_expression applied to every
\* expression of up to MaxCmds commands, starting from an empty process
\* graph and from the graph a raw shell expression has left.

BuildNames == {"cat", "seq", crate_name, "tr"}
BuildArgs == {<<>>, <<"seq", "1">>, <<"tr">>}

BuildCommands ==
    {Command(n, a, e) : n \in BuildNames, a \in BuildArgs, e \in BOOLEAN}

BuildExpressions ==
    {RawShell(ns) : ns \in BOOLEAN}
    \cup {Pipeline(ns, cs) : ns \in BOOLEAN,
                             cs \in UNION {[1..n -> BuildCommands] : n \in 0..MaxCmds}}

BuildPatterns ==
    {<<e>> : e \in BuildExpressions}
    \cup {<<RawShell(FALSE), e>> : e \in BuildExpressions}

InitBuild ==
    /\ pattern \in BuildPatterns
    /\ args = Args(pattern, 0, FALSE, "Full", DEFAULT_BUF_SIZE)
    /\ bytes = NoBytes
    /\ spawned = NoSpawned
    /\ builder = NoBuilder
    /\ parser = NoParser
    /\ rew = TopRew
    /\ pc = "build"
    /\ nin = 0
    /\ tty = FALSE
    /\ procs = <<>>
    /\ pipes = <<>>
    /\ children = <<>>
    /\ items = <<>>
    /\ stdins = <<>>
    /\ bi = 1
    /\ li = 1
    /\ buffer = <<>>
    /\ output = <<>>
    /\ wi = 1
    /\ all_finished = TRUE
    /\ result = "none"
    /\ errsrc = "none"
    /\ fpc = "none"
    /\ fj = 1
    /\ chunk = 0
    /\ nread = 0
    /\ fres = "none"
    /\ fwhy = "none"
    /\ delivered = <<>>
    /\ closedBy = {}
    /\ trywaited = {}
    /\ killed = {}
    /\ eos = 0

NextBuild == BuildExpression

SpecBuild == InitBuild /\ [][NextBuild]_vars

----------------------------------------------------------------------------
\* The environment of the spawned commands: build_expression applied to
\* every expression of at most one command, under every combination of the
\* global options.

\* Nothing is built and nothing runs yet.
Fresh ==
    /\ procs = <<>>
    /\ pipes = <<>>
    /\ children = <<>>
    /\ items = <<>>
    /\ stdins = <<>>
    /\ bi = 1
    /\ li = 1
    /\ buffer = <<>>
    /\ output = <<>>
    /\ wi = 1
    /\ all_finished = TRUE
    /\ result = "none"
    /\ errsrc = "none"
    /\ fpc = "none"
    /\ fj = 1
    /\ chunk = 0
    /\ nread = 0
    /\ fres = "none"
    /\ fwhy = "none"
    /\ delivered = <<>>
    /\ closedBy = {}
    /\ trywaited = {}
    /\ killed = {}
    /\ eos = 0

BufModes == {"Line", "Full"}
BufSizes == {DEFAULT_BUF_SIZE \div 8, DEFAULT_BUF_SIZE}

EnvPatterns ==
    {<<e>> : e \in {RawShell(FALSE)}
                   \cup {Pipeline(ns, cs) : ns \in BOOLEAN,
                                            cs \in [1..0 -> BuildCommands]
                                                   \cup [1..1 -> BuildCommands]}}

InitEnv ==
    /\ pattern \in EnvPatterns
    /\ args \in {Args(pattern, 0, n, m, s) :
                     n \in BOOLEAN, m \in BufModes, s \in BufSizes}
    /\ bytes = NoBytes
    /\ spawned = NoSpawned
    /\ builder = NoBuilder
    /\ parser = NoParser
    /\ rew = TopRew
    /\ pc = "build"
    /\ nin = 0
    /\ tty = FALSE
    /\ Fresh

SpecEnv == InitEnv /\ [][NextBuild]_vars

\* What a child built-in makes of its environment (the `env` attributes of
\* the global options): a flag is set unless the value is a false one, the
\* buffer mode is named as Display prints it, the size is a decimal number.
parse_bool(s) == s \notin {"n", "no", "f", "false", "off", "0"}

parse_buf_mode(s) ==
    CASE s = "line" -> "Line"
      [] s = "full" -> "Full"
      [] OTHER -> "invalid"

parse_buf_size(s) ==
    IF \E n \in BufSizes : ToString(n) = s
    THEN CHOOSE n \in BufSizes : ToString(n) = s
    ELSE 0

----------------------------------------------------------------------------
\* eval_pattern as a function of its pattern: besides a pattern with
\* Expressions, the patterns that hold Constants only, on which the build
\* loop spawns nothing and the items hold no reader.  The main thread is
\* scheduled whenever it can take a step.

ConstPatterns == {<<>>, <<Constant("a")>>, <<Constant("a"), Constant("b")>>}

LoopPatterns ==
    ConstPatterns
    \cup {<<Pipeline(FALSE, <<Command("tr", <<"-d", "a">>, TRUE)>>), Constant("a"),
            Pipeline(FALSE, <<Command("upper", <<>>, FALSE)>>)>>}

InitLoop ==
    /\ pattern \in LoopPatterns
    /\ args = Args(pattern, 0, FALSE, "Full", DEFAULT_BUF_SIZE)
    /\ bytes = NoBytes
    /\ spawned = NoSpawned
    /\ builder = NoBuilder
    /\ parser = NoParser
    /\ rew = TopRew
    /\ pc = "build"
    /\ nin \in 0..MaxIn
    /\ tty \in BOOLEAN
    /\ Fresh

SpecLoop == InitLoop /\ [][Next]_vars /\ WF_vars(Main)

----------------------------------------------------------------------------
\* Nested rew processes: a rew process spawns an internal command, which is
\* a rew process again, and the model follows the chain downwards.  Depth is
\* the number of rew processes above the one that is followed.

MaxDepth == 3

\* argv[0] of the process the user starts.
Argv0s == {<<crate_name>>, <<current_exe>>, <<"my", Space, crate_name>>}

\* The sub-commands a rew process runs.
NestCommands == {"x", "cat", "seq"}

\* Env::internal: the environment the sub-commands other than x give to an
\* internal command.
Env_internal ==
    ("REW_NULL" :> bool_to_string(args.null))
    @@ ("REW_BUF_MODE" :> buf_mode_to_string(args.buf_mode))
    @@ ("REW_BUF_SIZE" :> ToString(args.buf_size))
    @@ ("_REW_SPAWNED_BY" :> get_spawned_by(rew.command))

\* The rew process that Command::new(current_exe()).envs(e).arg(command)
\* starts.
internal_child(e, command) ==
    Rew(<<current_exe>>, command, Var(e["_REW_SPAWNED_BY"]), rew.top,
        Append(rew.ancestors, rew.command))

InitNest ==
    /\ rew \in {Rew(a, c, Unset, a, <<>>) : a \in Argv0s, c \in NestCommands}
    /\ pattern = <<>>
    /\ args = Args(pattern, 0, FALSE, "Full", DEFAULT_BUF_SIZE)
    /\ bytes = NoBytes
    /\ spawned = NoSpawned
    /\ builder = NoBuilder
    /\ parser = NoParser
    /\ pc = "done"
    /\ nin = 0
    /\ tty = FALSE
    /\ Fresh

nestVars == <<args, pattern, bytes, spawned, builder, parser, nin, tty, procs,
              pipes, mainVars, fwdVars>>

\* `rew x` spawns an internal command (build_internal_command).
SpawnByX ==
    /\ rew.command = "x"
    /\ Len(rew.ancestors) < MaxDepth
    /\ \E c \in NestCommands :
          rew' = internal_child(build_internal_command(<<c>>, <<>>).env, c)
    /\ UNCHANGED nestVars

\* Another sub-command spawns an internal command (Env::internal).
SpawnByEnv ==
    /\ rew.command # "x"
    /\ Len(rew.ancestors) < MaxDepth
    /\ \E c \in NestCommands : rew' = internal_child(Env_internal, c)
    /\ UNCHANGED nestVars

NextNest == SpawnByX \/ SpawnByEnv

SpecNest == InitNest /\ [][NextNest]_vars

----------------------------------------------------------------------------
\* The run at the level of bytes.  A byte is "NUL", "LF", " " or a letter;
\* parent stdin holds MaxIn records at most, each ended by the separator
\* the run is given.  The children are evaluated as functions from the
\* bytes of their stdin to the bytes of their stdout.

\* Mutant of separator: the newline, whatever --null says.
separator_Newline(null) == "LF"

\* Context::separator
separator(null) == IF null THEN "NUL" ELSE "LF"

\* LineReader: the records of bs, each without the separator that ends it;
\* bytes behind the last separator are a record of their own.
RECURSIVE split_lines(_, _, _, _)
split_lines(bs, sep, line, acc) ==
    IF bs = <<>> THEN (IF line = <<>> THEN acc ELSE Append(acc, line))
    ELSE IF Head(bs) = sep
    THEN split_lines(Tail(bs), sep, <<>>, Append(acc, line))
    ELSE split_lines(Tail(bs), sep, Append(line, Head(bs)), acc)

read_lines(bs, sep) == split_lines(bs, sep, <<>>, <<>>)

\* Writer: every record followed by the separator.
RECURSIVE write_lines(_, _)
write_lines(lines, sep) ==
    IF lines = <<>> THEN <<>>
    ELSE Head(lines) \o <<sep>> \o write_lines(Tail(lines), sep)

\* <[u8]>::trim: whitespace is taken off both ends.
RECURSIVE trim_start(_)
trim_start(line) ==
    IF line # <<>> /\ Head(line) \in {" ", "LF"} THEN trim_start(Tail(line)) ELSE line

RECURSIVE trim_end(_)
trim_end(line) ==
    IF line # <<>> /\ line[Len(line)] \in {" ", "LF"}
    THEN trim_end(SubSeq(line, 1, Len(line) - 1))
    ELSE line

\* The built-in `trim`: line by line, with the separator of its Context,
\* which the child takes from REW_NULL.
trim_run(bs, null) ==
    LET lines == read_lines(bs, separator(null))
    IN  write_lines([k \in 1..Len(lines) |-> trim_end(trim_start(lines[k]))],
                    separator(null))

\* An external program that works line by line, as `sed 's/^.//'` does: a
\* line ends at a newline; the first byte of every line is dropped; the
\* last line is ended by a newline only if it was on input.
sed_run(bs) ==
    LET lines == read_lines(bs, "LF")
        out   == write_lines([k \in 1..Len(lines) |->
                                 IF lines[k] = <<>> THEN <<>> ELSE Tail(lines[k])],
                             "LF")
    IN  IF bs = <<>> \/ bs[Len(bs)] = "LF" THEN out
        ELSE SubSeq(out, 1, Len(out) - 1)

\* What one command of a pipeline writes when it reads bs: an internal
\* `trim` works on lines, any other internal command copies the bytes; an
\* external program is not told about the separator.
command_run(params, null, bs) ==
    LET built == build_command(params)
    IN  IF built.command.program = current_exe
        THEN IF built.command.args # <<>> /\ Head(built.command.args) = "trim"
             THEN trim_run(bs, null)
             ELSE bs
        ELSE sed_run(bs)

RECURSIVE pipeline_run(_, _, _)
pipeline_run(cmds, null, bs) ==
    IF cmds = <<>> THEN bs
    ELSE pipeline_run(Tail(cmds), null, command_run(Head(cmds), null, bs))

\* The records the reader of item i yields: on the fast path the lines of
\* parent stdin; on the general path the lines of the stdout of the item's
\* pipeline (an empty one is `cat`), which got the chunks of parent stdin
\* as they were.
item_lines(p, i, null, inp) ==
    IF try_simplify(p) THEN read_lines(inp, separator(null))
    ELSE read_lines(pipeline_run(p[i].cmds, null, inp), separator(null))

RECURSIVE compose_record(_, _, _, _, _)
compose_record(p, i, k, null, inp) ==
    IF i > Len(p) THEN <<>>
    ELSE (IF p[i].type = "const" THEN <<p[i].value>>
          ELSE item_lines(p, i, null, inp)[k])
         \o compose_record(p, i + 1, k, null, inp)

\* What the run writes to parent stdout: one record per round, as long as
\* every Expression has a record, each ended by the separator.
eval_bytes(p, null, inp) ==
    LET exprs == {i \in 1..Len(p) : p[i].type = "expr"}
        lens   == {Len(item_lines(p, i, null, inp)) : i \in exprs}
        rounds == CHOOSE n \in lens : \A m \in lens : n <= m
    IN  write_lines([k \in 1..rounds |-> compose_record(p, 1, k, null, inp)],
                    separator(null))

\* The records and the patterns the byte-level run is explored with; every
\* Expression is a Pipeline.
SepRecords == {<<>>, <<"a">>, <<" ", "a">>}

SepPatterns ==
    { \* "{}"
      <<Pipeline(FALSE, <<>>)>>,
      \* "b{trim}"
      <<Constant("b"), Pipeline(FALSE, <<Command("trim", <<>>, FALSE)>>)>>,
      \* "{}{rew trim}"
      <<Pipeline(FALSE, <<>>),
        Pipeline(FALSE, <<Command(crate_name, <<"trim">>, FALSE)>>)>>,
      \* "{!sed 's/^.//'}"
      <<Pipeline(FALSE, <<Command("sed", <<"s/^.//">>, TRUE)>>)>>,
      \* "{trim | !sed 's/^.//'}"
      <<Pipeline(FALSE, <<Command("trim", <<>>, FALSE),
                          Command("sed", <<"s/^.//">>, TRUE)>>)>> }

\* The byte that ends a record of the input a run is given.
SepByte(null) == IF null THEN "NUL" ELSE "LF"

InitSep ==
    /\ args \in {Args(p, 0, n, "Full", DEFAULT_BUF_SIZE) :
                     p \in SepPatterns, n \in BOOLEAN}
    /\ pattern = args.pattern
    /\ \E lines \in UNION {[1..n -> SepRecords] : n \in 0..MaxIn} :
           bytes = [inp |-> write_lines(lines, SepByte(args.null)),
                    out |-> <<>>, done |-> FALSE]
    /\ spawned = NoSpawned
    /\ builder = NoBuilder
    /\ parser = NoParser
    /\ rew = TopRew
    /\ pc = "run"
    /\ nin = 0
    /\ tty = FALSE
    /\ Fresh

\* run, from the first byte read to the last byte written.
RunBytes ==
    /\ pc = "run"
    /\ ~bytes.done
    /\ bytes' = [bytes EXCEPT !.out = eval_bytes(pattern, args.null, bytes.inp),
                              !.done = TRUE]
    /\ pc' = "done"
    /\ UNCHANGED <<args, pattern, spawned, builder, parser, rew, nin, tty, fwdVars, procs, pipes, children, items,
                   stdins, bi, li, buffer, output, wi, all_finished, result,
                   errsrc, trywaited, killed, eos>>

NextSep == RunBytes

SpecSep == InitSep /\ [][NextSep]_vars

----------------------------------------------------------------------------
\* The Spawned handle (process.rs, spawn.rs) and x.rs's Eval handle: one
\* child, the Context of its handle and the calls on it.  Every call gets
\* what the operating system answers (os) and leaves what it returns (ret).
\* An error is the chain of its links from the outermost to the root; a link
\* is a message, an entry of the Context, or (x.rs) both in one.

MaxContext == 3     \* entries a Context holds at most

Impls == {"process", "spawn", "x"}

Msg(m) == [msg |-> m, entry |-> ""]
Entry(e) == [msg |-> "", entry |-> e]

Ok(v) == [ok |-> TRUE, val |-> v, chain |-> <<>>]
Err(chain) == [ok |-> FALSE, val |-> "", chain |-> chain]

\* anyhow's Error::context: the new link wraps the error.
context(error, link) == <<link>> \o error

\* Context::apply: every entry wraps the error, the first entry first.
RECURSIVE apply(_, _)
apply(ctx, error) ==
    IF ctx = <<>> THEN error
    ELSE apply(Tail(ctx), context(error, Entry(Head(ctx))))

\* EvalContext::apply: raw_command, then raw_expr, each with the message.
RECURSIVE eval_apply(_, _, _)
eval_apply(ctx, error, message) ==
    IF ctx = <<>> THEN error
    ELSE eval_apply(Tail(ctx),
                    context(error, [msg |-> message, entry |-> Head(ctx)]),
                    message)

\* The error an operation of handle h returns for the error it observed.
annotate(h, error, message, eval_message) ==
    IF h.impl = "x" THEN eval_apply(h.context, error, eval_message)
    ELSE context(apply(h.context, error), Msg(message))

\* Command::context (EvalContext::from_command in x.rs): the command line,
\* and the environment when the Command sets any.
command_context(impl, has_env) ==
    IF impl # "x" /\ has_env THEN <<"command", "environment">> ELSE <<"command">>

\* spawn_with_context
spawn_with_context(h, os) ==
    IF os = "Ok" THEN Ok("child")
    ELSE Err(annotate(h, <<Msg("os error")>>, "failed to spawn child process",
                      "could not spawn process for"))

\* Mutant of write_all: a broken pipe is an error like any other.
write_all_BrokenPipeErr(h, os) ==
    IF os = "Ok" THEN Ok("true")
    ELSE Err(annotate(h, <<Msg("os error")>>,
                      "failed to write to child process stdin", "could not write to"))

\* write_all
write_all(h, os) ==
    CASE os = "Ok" -> Ok("true")
      [] os = "BrokenPipe" -> Ok("false")
      [] OTHER -> Err(annotate(h, <<Msg("os error")>>,
                               "failed to write to child process stdin",
                               "could not write to"))

\* read_line
read_line(h, os) ==
    CASE os = "Line" -> Ok("line")
      [] os = "Eof" -> Ok("none")
      [] OTHER -> Err(annotate(h, <<Msg("os error")>>,
                               "failed to read from child process stdout",
                               "could not read from"))

\* exit_error: spawn.rs tells an exit code from a signal; process.rs and
\* x.rs print status.code().unwrap_or_default().
exit_error(impl, status) ==
    IF impl = "spawn"
    THEN CASE status = "1" -> "child process exited with code 1"
           [] status = "0" -> "child process exited with code 0"
           [] OTHER -> "child process was terminated by a signal"
    ELSE CASE status = "1" -> "child process exited with code 1"
           [] OTHER -> "child process exited with code 0"

\* wait_context
wait_context(h, error) ==
    annotate(h, error, "child proces execution failed", "failed execution of")

\* wait
wait(h, os) ==
    CASE os = "0" -> Ok("unit")
      [] os \in {"1", "signal"} -> Err(wait_context(h, <<Msg(exit_error(h.impl, os))>>))
      [] OTHER -> Err(wait_context(h, <<Msg("os error")>>))

\* Mutant of try_wait: the exit status is not looked at.
try_wait_IgnoreStatus(h, os) ==
    CASE os = "None" -> Ok("false")
      [] os \in {"0", "1", "signal"} -> Ok("true")
      [] OTHER -> Err(wait_context(h, <<Msg("os error")>>))

\* try_wait
try_wait(h, os) ==
    CASE os = "None" -> Ok("false")
      [] os = "0" -> Ok("true")
      [] os \in {"1", "signal"} -> Err(wait_context(h, <<Msg(exit_error(h.impl, os))>>))
      [] OTHER -> Err(wait_context(h, <<Msg("os error")>>))

\* kill
kill(h, os) ==
    IF os = "Ok" THEN Ok("unit")
    ELSE Err(annotate(h, <<Msg("os error")>>, "failed to kill child process",
                      "could not kill"))

\* What the actions on the handle leave alone.
runVars == <<args, pattern, bytes, builder, parser, rew, nin, tty, procs, pipes, mainVars, fwdVars>>

InitSpawned ==
    /\ spawned \in {[impl |-> i, has_env |-> e, context |-> <<>>, child |-> "none",
                     status |-> "none", peer |-> TRUE, op |-> "none",
                     os |-> "none", ret |-> Ok("none")] :
                        i \in Impls, e \in BOOLEAN}
    /\ pattern = <<>>
    /\ args = Args(pattern, 0, FALSE, "Full", DEFAULT_BUF_SIZE)
    /\ bytes = NoBytes
    /\ builder = NoBuilder
    /\ parser = NoParser
    /\ rew = TopRew
    /\ pc = "done"
    /\ nin = 0
    /\ tty = FALSE
    /\ Fresh

\* The result of a call is recorded with the call.
Called(h, op, os, ret) == [h EXCEPT !.op = op, !.os = os, !.ret = ret]

\* command.spawn_with_context(): the child runs, or the spawn fails with the
\* Context of the Command.
OpSpawn ==
    /\ spawned.impl # "none"
    /\ spawned.child = "none"
    /\ spawned.op = "none"
    /\ \E os \in {"Ok", "OsError"} :
          LET h == [spawned EXCEPT
                       !.context = command_context(spawned.impl, spawned.has_env),
                       !.child = IF os = "Ok" THEN "running" ELSE "none"]
          IN  spawned' = Called(h, "spawn", os, spawn_with_context(h, os))
    /\ UNCHANGED runVars

\* Pipeline::context / Context::add: one more entry; in x.rs
\* EvalPipeline::merge_context sets raw_expr.
OpAddContext ==
    /\ spawned.impl # "none"
    /\ spawned.child # "none"
    /\ Len(spawned.context) < MaxContext
    /\ spawned.impl = "x" => spawned.context = <<"command">>
    /\ LET e == IF \A k \in 1..Len(spawned.context) : spawned.context[k] # "expression"
                THEN "expression" ELSE "note"
           h == [spawned EXCEPT !.context = Append(spawned.context, e)]
       IN  spawned' = Called(h, "add", "none", Ok("unit"))
    /\ UNCHANGED runVars

\* The child exits by itself, with a code or by a signal.
OsChildExit ==
    /\ spawned.impl # "none"
    /\ spawned.child = "running"
    /\ \E st \in {"0", "1", "signal"} :
          spawned' = [spawned EXCEPT !.child = "exited", !.status = st, !.peer = FALSE]
    /\ UNCHANGED runVars

\* The child closes its stdin.
OsPeerClose ==
    /\ spawned.impl # "none"
    /\ spawned.child = "running"
    /\ spawned.peer
    /\ spawned' = [spawned EXCEPT !.peer = FALSE]
    /\ UNCHANGED runVars

\* stdin.write_all(buf): a pipe whose reader is gone answers BrokenPipe.
OpWriteAll ==
    /\ spawned.impl # "none"
    /\ spawned.child # "none"
    /\ \E os \in IF spawned.peer THEN {"Ok", "OsError"} ELSE {"BrokenPipe"} :
          spawned' = Called(spawned, "write_all", os, write_all(spawned, os))
    /\ UNCHANGED runVars

\* stdout.read_line()
OpReadLine ==
    /\ spawned.impl # "none"
    /\ spawned.child # "none"
    /\ \E os \in IF spawned.child = "running" THEN {"Line", "OsError"}
                 ELSE {"Line", "Eof", "OsError"} :
          spawned' = Called(spawned, "read_line", os, read_line(spawned, os))
    /\ UNCHANGED runVars

\* child.try_wait(): answers at once, None while the child runs.
OpTryWait ==
    /\ spawned.impl # "none"
    /\ spawned.child # "none"
    /\ \E os \in {IF spawned.child = "running" THEN "None" ELSE spawned.status,
                  "OsError"} :
          spawned' = Called(spawned, "try_wait", os, try_wait(spawned, os))
    /\ UNCHANGED runVars

\* child.wait(): returns once the child has exited.  x.rs has no wait.
OpWait ==
    /\ spawned.impl \in {"process", "spawn"}
    /\ spawned.child = "exited"
    /\ \E os \in {spawned.status, "OsError"} :
          spawned' = Called(spawned, "wait", os, wait(spawned, os))
    /\ UNCHANGED runVars

\* child.kill(): a running child is terminated by the signal.
OpKill ==
    /\ spawned.impl # "none"
    /\ spawned.child # "none"
    /\ \E os \in {"Ok", "OsError"} :
          LET h == IF os = "Ok" /\ spawned.child = "running"
                   THEN [spawned EXCEPT !.child = "exited", !.status = "signal",
                                        !.peer = FALSE]
                   ELSE spawned
          IN  spawned' = Called(h, "kill", os, kill(spawned, os))
    /\ UNCHANGED runVars

NextSpawned ==
    \/ OpSpawn \/ OpAddContext \/ OsChildExit \/ OsPeerClose
    \/ OpWriteAll \/ OpReadLine \/ OpTryWait \/ OpWait \/ OpKill

SpecSpawned == InitSpawned /\ [][NextSpawned]_vars

----------------------------------------------------------------------------
\* The pipeline Builder and the Pipeline it builds (pipeline.rs), with the
\* handles Spawned::take_stdin / take_stdout derive from a child
\* (process.rs, spawn.rs).  A Context is a Vec<String> of its own: `heap`
\* holds every Context alive, a Spawned value holds the index of its own.

MaxAdds == 2        \* Context::add calls on a single handle

StdinModes == {"Connected", "Disconnected"}

\* Option<Spawned<T>>: `of` is the child the inner pipe end belongs to,
\* `ctx` the index of the handle's Context.
None == [some |-> FALSE, of |-> 0, ctx |-> 0]
Some(of, ctx) == [some |-> TRUE, of |-> of, ctx |-> ctx]

\* Mutant of clone_context: the handle refers to the child's Context.
clone_context_Shared(heap, ctx) == [heap |-> heap, ctx |-> ctx]

\* Spawned::clone_context: Context is #[derive(Clone)] over a Vec<String>,
\* so the new handle owns a new vector with the same entries.
clone_context(heap, ctx) == [heap |-> Append(heap, heap[ctx]), ctx |-> Len(heap) + 1]

\* Spawned<Child>::take_stdin: inner.stdin.take(), wrapped with a clone of
\* the Context.  k is the child's position, c the child.
take_stdin(heap, c, k) ==
    IF c.stdin
    THEN LET cl == clone_context(heap, c.ctx)
         IN  [heap |-> cl.heap, child |-> [c EXCEPT !.stdin = FALSE],
              handle |-> Some(k, cl.ctx)]
    ELSE [heap |-> heap, child |-> c, handle |-> None]

\* Spawned<Child>::take_stdout
take_stdout(heap, c, k) ==
    IF c.stdout
    THEN LET cl == clone_context(heap, c.ctx)
         IN  [heap |-> cl.heap, child |-> [c EXCEPT !.stdout = FALSE],
              handle |-> Some(k, cl.ctx)]
    ELSE [heap |-> heap, child |-> c, handle |-> None]

\* The holder of a Context no call was made on.
NoHolder == <<"none", 0>>

\* Builder::new
Builder_new(mode) ==
    [state |-> "builder", heap |-> <<>>, children |-> <<>>, stdin |-> None,
     stdin_mode |-> mode, stdout |-> None, taken |-> <<>>,
     added |-> <<>>, dropped |-> {}, adds |-> 0, last |-> "new",
     target |-> NoHolder]

\* Mutant of Builder::command: a Disconnected command disables stdin for
\* itself only, the builder's mode is left as it was.
Builder_command_ModeKept(b, has_env, mode, os) ==
    LET k == Len(b.children) + 1
        prev == mode # "Disconnected" /\ b.stdout.some
        piped == mode # "Disconnected" /\ ~b.stdout.some
        added == Append(b.added, mode)
    IN  IF os # "Ok"
        THEN [state |-> "failed", heap |-> <<>>, children |-> <<>>, stdin |-> None,
              stdin_mode |-> b.stdin_mode, stdout |-> None, taken |-> <<>>,
              added |-> b.added, dropped |-> b.dropped, adds |-> b.adds,
              last |-> "command", target |-> NoHolder]
        ELSE LET heap1 == Append(b.heap, command_context("process", has_env))
                 child0 == [ctx |-> Len(heap1), stdin |-> piped, stdout |-> TRUE]
                 off == b.stdin_mode = "Disconnected"
                 tin == IF ~off /\ ~b.stdin.some
                        THEN take_stdin(heap1, child0, k)
                        ELSE [heap |-> heap1, child |-> child0, handle |-> b.stdin]
                 stdin1 == IF off THEN None ELSE tin.handle
                 tout == take_stdout(tin.heap, tin.child, k)
                 gone == (IF off /\ b.stdin.some THEN {<<"stdin", b.stdin.of>>} ELSE {})
                         \cup (IF ~prev /\ b.stdout.some
                               THEN {<<"stdout", b.stdout.of>>} ELSE {})
             IN  [state |-> "builder", heap |-> tout.heap,
                  children |-> Append(b.children, tout.child),
                  stdin |-> stdin1, stdin_mode |-> b.stdin_mode,
                  stdout |-> tout.handle, taken |-> b.taken, added |-> added,
                  dropped |-> b.dropped \cup gone, adds |-> b.adds,
                  last |-> "command", target |-> NoHolder]

\* Builder::command.  The child's stdin is null for a Disconnected command,
\* the previous child's stdout if there is one, a new pipe otherwise; a
\* failed spawn returns the error and the builder, moved into the call, is
\* dropped with everything it holds.
Builder_command(b, has_env, mode, os) ==
    LET k == Len(b.children) + 1
        mode1 == IF mode = "Disconnected" THEN "Disconnected" ELSE b.stdin_mode
        prev == mode # "Disconnected" /\ b.stdout.some
        piped == mode # "Disconnected" /\ ~b.stdout.some
        added == Append(b.added, mode)
    IN  IF os # "Ok"
        THEN [state |-> "failed", heap |-> <<>>, children |-> <<>>, stdin |-> None,
              stdin_mode |-> mode1, stdout |-> None, taken |-> <<>>,
              added |-> b.added, dropped |-> b.dropped, adds |-> b.adds,
              last |-> "command", target |-> NoHolder]
        ELSE LET heap1 == Append(b.heap, command_context("process", has_env))
                 child0 == [ctx |-> Len(heap1), stdin |-> piped, stdout |-> TRUE]
                 off == mode1 = "Disconnected"
                 tin == IF ~off /\ ~b.stdin.some
                        THEN take_stdin(heap1, child0, k)
                        ELSE [heap |-> heap1, child |-> child0, handle |-> b.stdin]
                 stdin1 == IF off THEN None ELSE tin.handle
                 tout == take_stdout(tin.heap, tin.child, k)
                 gone == (IF off /\ b.stdin.some THEN {<<"stdin", b.stdin.of>>} ELSE {})
                         \cup (IF ~prev /\ b.stdout.some
                               THEN {<<"stdout", b.stdout.of>>} ELSE {})
             IN  [state |-> "builder", heap |-> tout.heap,
                  children |-> Append(b.children, tout.child),
                  stdin |-> stdin1, stdin_mode |-> mode1,
                  stdout |-> tout.handle, taken |-> b.taken, added |-> added,
                  dropped |-> b.dropped \cup gone, adds |-> b.adds,
                  last |-> "command", target |-> NoHolder]

\* Builder::build: the expect panics when no command was added.
Builder_build(b) ==
    IF b.stdout.some THEN [b EXCEPT !.state = "pipeline", !.last = "build"]
    ELSE [b EXCEPT !.state = "panic", !.last = "build"]

\* Context::add
add(heap, ctx, value) == [heap EXCEPT ![ctx] = Append(@, value)]

\* The Contexts of a Pipeline: of its stdin, its children and its stdout.
PipelineCtxs(b) ==
    (IF b.stdin.some THEN {b.stdin.ctx} ELSE {})
    \cup {b.children[k].ctx : k \in 1..Len(b.children)}
    \cup {b.stdout.ctx}

\* Pipeline::context: the entry is added to stdin, every child and stdout.
Pipeline_context(b, value) ==
    [b EXCEPT !.heap = [i \in 1..Len(b.heap) |->
                           IF i \in PipelineCtxs(b) THEN Append(b.heap[i], value)
                           ELSE b.heap[i]],
              !.last = "context"]

\* The values that hold a Context: the Pipeline's and the handles taken
\* from its children later.
Holders(b) ==
    (IF b.stdin.some THEN {<<"stdin", b.stdin.of>>} ELSE {})
    \cup (IF b.stdout.some THEN {<<"stdout", b.stdout.of>>} ELSE {})
    \cup {<<"child", k>> : k \in 1..Len(b.children)}
    \cup {<<"taken", j>> : j \in 1..Len(b.taken)}

CtxOf(b, h) ==
    CASE h[1] = "stdin" -> b.stdin.ctx
      [] h[1] = "stdout" -> b.stdout.ctx
      [] h[1] = "child" -> b.children[h[2]].ctx
      [] OTHER -> b.taken[h[2]].ctx

\* The Context of holder h as a value.
ContextOf(b, h) == b.heap[CtxOf(b, h)]

InitPipeline ==
    /\ builder \in {Builder_new(m) : m \in StdinModes}
    /\ spawned = NoSpawned
    /\ parser = NoParser
    /\ rew = TopRew
    /\ pattern = <<>>
    /\ args = Args(pattern, 0, FALSE, "Full", DEFAULT_BUF_SIZE)
    /\ bytes = NoBytes
    /\ pc = "done"
    /\ nin = 0
    /\ tty = FALSE
    /\ Fresh

pipeVars == <<args, pattern, bytes, spawned, parser, rew, nin, tty, procs, pipes,
              mainVars, fwdVars>>

\* builder.command(command, mode)?
BuilderCommand ==
    /\ builder.state = "builder"
    /\ Len(builder.children) < MaxCmds
    /\ \E has_env \in BOOLEAN, m \in StdinModes, os \in {"Ok", "OsError"} :
          builder' = Builder_command(builder, has_env, m, os)
    /\ UNCHANGED pipeVars

\* builder.build()
BuilderBuild ==
    /\ builder.state = "builder"
    /\ builder' = Builder_build(builder)
    /\ UNCHANGED pipeVars

\* pipeline.context(entry)
PipelineContext ==
    /\ builder.state = "pipeline"
    /\ \A i \in PipelineCtxs(builder) : Len(builder.heap[i]) < MaxContext
    /\ builder' = Pipeline_context(builder, "expression")
    /\ UNCHANGED pipeVars

\* children[k].take_stdin() on the built Pipeline: a child whose stdin the
\* builder did not take still has it.
TakeStdin ==
    /\ builder.state = "pipeline"
    /\ \E k \in 1..Len(builder.children) :
          /\ builder.children[k].stdin
          /\ LET t == take_stdin(builder.heap, builder.children[k], k)
             IN  builder' = [builder EXCEPT !.heap = t.heap, !.children[k] = t.child,
                                            !.taken = Append(@, t.handle),
                                            !.last = "take_stdin"]
    /\ UNCHANGED pipeVars

\* h.context.add(entry) on one holder (Spawned::context is a pub field).
ContextAdd ==
    /\ builder.state = "pipeline"
    /\ builder.adds < MaxAdds
    /\ \E h \in Holders(builder) :
          /\ Len(ContextOf(builder, h)) < MaxContext
          /\ builder' = [builder EXCEPT
                            !.heap = add(builder.heap, CtxOf(builder, h), "note"),
                            !.adds = @ + 1, !.last = "add", !.target = h]
    /\ UNCHANGED pipeVars

NextPipeline ==
    \/ BuilderCommand
    \/ BuilderBuild
    \/ PipelineContext
    \/ TakeStdin
    \/ ContextAdd

SpecPipeline == InitPipeline /\ [][NextPipeline]_vars

----------------------------------------------------------------------------
\* The pattern parser (src/src/bin/rew/pattern/parser.rs).  A source is a
\* sequence of characters, a range a pair of byte offsets into the source.
\* Lexer, Reader and Filter::parse are used by the parser as follows: the
\* lexer cuts the source into `{`, `}`, `|` and Raw tokens (a Raw token is a
\* maximal run of other characters, an escaped character being one Char of
\* two source characters); Filter::parse reads one filter from a Reader over
\* the Chars of a Raw token and reports errors with Reader positions.

MaxUnits == 4       \* lexical units a source is put together from

Escape == "%"       \* Config::escape
Wide == "U+00E9"    \* a character of two bytes in UTF-8

\* char::len_utf8
char_len_utf8(c) == IF c = Wide THEN 2 ELSE 1

\* Char: Raw(char) or Escaped(char, [escape, char]); len is its length in
\* the source in bytes.
RawChar(c) == [value |-> c, escaped |-> FALSE, len |-> char_len_utf8(c)]
EscapedChar(c) == [value |-> c, escaped |-> TRUE,
                   len |-> char_len_utf8(Escape) + char_len_utf8(c)]

Range(start, end) == [start |-> start, end |-> end]

NoToken == [kind |-> "None", raw |-> <<>>, range |-> Range(0, 0)]
Token(kind, raw, range) == [kind |-> kind, raw |-> raw, range |-> range]

\* Lexer::new
Lexer_new(input) == [chars |-> input, i |-> 1, pos |-> 0]

\* The Chars of the Raw token that starts at character i.
RECURSIVE read_raw(_, _)
read_raw(chars, i) ==
    IF i > Len(chars) \/ chars[i] \in {"{", "}", "|"} THEN <<>>
    ELSE IF chars[i] = Escape /\ i < Len(chars)
         THEN <<EscapedChar(chars[i + 1])>> \o read_raw(chars, i + 2)
         ELSE <<RawChar(chars[i])>> \o read_raw(chars, i + 1)

RECURSIVE chars_len(_)
chars_len(raw) == IF raw = <<>> THEN 0 ELSE Head(raw).len + chars_len(Tail(raw))

RECURSIVE chars_count(_)
chars_count(raw) ==
    IF raw = <<>> THEN 0
    ELSE (IF Head(raw).escaped THEN 2 ELSE 1) + chars_count(Tail(raw))

\* Lexer::read_token: the next token and the lexer after it, None at the
\* end of the input.
read_token(lexer) ==
    IF lexer.i > Len(lexer.chars) THEN [token |-> NoToken, lexer |-> lexer]
    ELSE LET c == lexer.chars[lexer.i]
         IN  IF c \in {"{", "}", "|"}
             THEN [token |-> Token(CASE c = "{" -> "ExprStart"
                                     [] c = "}" -> "ExprEnd"
                                     [] OTHER -> "Pipe",
                                   <<>>, Range(lexer.pos, lexer.pos + 1)),
                   lexer |-> [lexer EXCEPT !.i = @ + 1, !.pos = @ + 1]]
             ELSE LET raw == read_raw(lexer.chars, lexer.i)
                  IN  [token |-> Token("Raw", raw,
                                       Range(lexer.pos, lexer.pos + chars_len(raw))),
                       lexer |-> [lexer EXCEPT !.i = @ + chars_count(raw),
                                               !.pos = @ + chars_len(raw)]]

\* Reader::position after n Chars were read: their length in bytes.
position(chars, n) == chars_len(SubSeq(chars, 1, n))

ParseOk(value) == [ok |-> TRUE, value |-> value, kind |-> "", range |-> Range(0, 0)]
ParseErr(kind, range) == [ok |-> FALSE, value |-> <<>>, kind |-> kind, range |-> range]

Digits == {"1", "2"}
DigitValue(c) == IF c = "1" THEN 1 ELSE 2

\* Filter::parse: `f` is a filter by itself, `#A-B` takes a range of two
\* indices and fails when A is over B; any other character is not a
\* filter.  The value holds the number of Chars read.
Filter_parse(chars) ==
    LET c == chars[1].value
    IN  CASE ~chars[1].escaped /\ c = "f" -> ParseOk([filter |-> "FileName", read |-> 1])
          [] ~chars[1].escaped /\ c = "#" ->
                IF /\ Len(chars) >= 4
                   /\ \A k \in 2..4 : ~chars[k].escaped
                   /\ chars[2].value \in Digits
                   /\ chars[3].value = "-"
                   /\ chars[4].value \in Digits
                THEN IF DigitValue(chars[2].value) > DigitValue(chars[4].value)
                     THEN ParseErr("RangeStartOverEnd",
                                   Range(position(chars, 1), position(chars, 4)))
                     ELSE ParseOk([filter |-> "Substring", read |-> 4])
                ELSE ParseErr("ExpectedRange",
                              Range(position(chars, 1), position(chars, Len(chars))))
          [] OTHER -> ParseErr("UnknownFilter", Range(0, position(chars, 1)))

\* Item::Constant, Item::Expression and Parsed<T>.
ItemConstant(value) == [item |-> "Constant", value |-> value, filters |-> <<>>]
ItemExpression(filters) == [item |-> "Expression", value |-> <<>>, filters |-> filters]
Parsed(value, range) == [value |-> value, range |-> range]

\* Chars::to_string: the characters the Chars stand for.
chars_to_string(raw) == [k \in 1..Len(raw) |-> raw[k].value]

\* Parser::token_range
token_range(token) == IF token = NoToken THEN Range(0, 0) ELSE token.range

\* Mutant of parse_filter: errors keep the range Filter::parse and the
\* Reader gave them.
parse_filter_Local(filter, chars, range) ==
    IF ~filter.ok THEN filter
    ELSE IF filter.value.read < Len(chars)
         THEN ParseErr("ExpectedPipeOrExprEnd",
                       Range(position(chars, filter.value.read),
                             position(chars, filter.value.read + 1)))
         ELSE ParseOk(Parsed(filter.value.filter, range))

\* Parser::parse_filter, given what Filter::parse(&mut reader) returned:
\* an error is moved by range.start, a character left in the reader is an
\* error at the reader's position.
parse_filter(filter, chars, range) ==
    IF ~filter.ok
    THEN ParseErr(filter.kind, Range(range.start + filter.range.start,
                                     range.start + filter.range.end))
    ELSE IF filter.value.read < Len(chars)
         THEN ParseErr("ExpectedPipeOrExprEnd",
                       Range(range.start + position(chars, filter.value.read),
                             range.start + position(chars, filter.value.read + 1)))
         ELSE ParseOk(Parsed(filter.value.filter, range))

\* What parse_filters leaves: the filters and the parser's lexer and token.
Filters(filters, lexer, token) ==
    [ok |-> TRUE, filters |-> filters, lexer |-> lexer, token |-> token,
     kind |-> "", range |-> Range(0, 0)]

RECURSIVE parse_filters_loop(_, _, _)

\* self.fetch_token()? at the end of the loop body, then the loop again.
parse_filters_next(fetched, filters) ==
    parse_filters_loop(fetched.lexer, fetched.token, filters)

\* filters.push(self.parse_filter(&raw, &token.range)?)
parse_filters_push(filter, lexer, filters) ==
    IF ~filter.ok THEN filter
    ELSE parse_filters_next(read_token(lexer), Append(filters, filter.value))

\* The Token::Pipe arm once a filter was read: the token fetched after the
\* pipe has to be a filter.
parse_filters_pipe(fetched, pos, filters) ==
    IF fetched.token # NoToken
    THEN IF fetched.token.kind = "Raw"
         THEN parse_filters_push(parse_filter(Filter_parse(fetched.token.raw),
                                              fetched.token.raw, fetched.token.range),
                                 fetched.lexer, filters)
         ELSE ParseErr("ExpectedFilter", fetched.token.range)
    ELSE ParseErr("ExpectedFilter", Range(pos, pos))

\* The while loop of parse_filters, entered with the token just fetched.
parse_filters_loop(lexer, token, filters) ==
    CASE token.kind = "None" -> Filters(filters, lexer, token)
      [] token.kind = "Raw" ->
            parse_filters_push(parse_filter(Filter_parse(token.raw), token.raw,
                                            token.range),
                               lexer, filters)
      [] token.kind = "Pipe" ->
            IF filters = <<>>
            THEN ParseErr("ExpectedFilterOrExprEnd", token.range)
            ELSE parse_filters_pipe(read_token(lexer), token.range.end, filters)
      [] token.kind = "ExprStart" -> ParseErr("ExprStartInsideExpr", token.range)
      [] OTHER -> Filters(filters, lexer, token)

\* Parser::parse_filters
parse_filters(lexer) == parse_filters_next(read_token(lexer), <<>>)

\* What parse_item leaves: Some(item) or None, and the parser's lexer and
\* token.
Parser_item(some, item, lexer, token) ==
    [ok |-> TRUE, some |-> some, item |-> item, lexer |-> lexer, token |-> token,
     kind |-> "", range |-> Range(0, 0)]

\* Mutant of parse_expression: the range ends where the last filter ends.
parse_expression_EndAtFilter(fs, token) ==
    IF ~fs.ok THEN fs
    ELSE Parser_item(TRUE,
                     Parsed(ItemExpression(fs.filters),
                            Range(token_range(token).start,
                                  IF fs.filters = <<>> THEN token_range(token).end
                                  ELSE fs.filters[Len(fs.filters)].range.end)),
                     fs.lexer, fs.token)

\* Parser::parse_expression, given the `{` token and what parse_filters
\* returned: from the start of `{` to the end of the token the parser
\* stands at.
parse_expression(fs, token) ==
    IF ~fs.ok THEN fs
    ELSE Parser_item(TRUE,
                     Parsed(ItemExpression(fs.filters),
                            Range(token_range(token).start, token_range(fs.token).end)),
                     fs.lexer, fs.token)

\* Mutant of the Token::ExprStart arm: an unclosed expression is reported
\* where the parser stands.
parse_item_expr_RangeAtEnd(expression, expr_start_range) ==
    IF ~expression.ok THEN expression
    ELSE IF expression.token.kind = "ExprEnd" THEN expression
         ELSE ParseErr("UnmatchedExprStart",
                       Range(expression.lexer.pos, expression.lexer.pos))

\* The Token::ExprStart arm of parse_item, given what parse_expression
\* returned.
parse_item_expr(expression, expr_start_range) ==
    IF ~expression.ok THEN expression
    ELSE IF expression.token.kind = "ExprEnd" THEN expression
         ELSE ParseErr("UnmatchedExprStart", expr_start_range)

\* Mutant of parse_item_token: a stray `}` is a constant.
parse_item_token_EndIsRaw(fetched) ==
    CASE fetched.token.kind = "None" ->
            Parser_item(FALSE, Parsed(ItemConstant(<<>>), Range(0, 0)),
                        fetched.lexer, fetched.token)
      [] fetched.token.kind = "Raw" ->
            Parser_item(TRUE, Parsed(ItemConstant(chars_to_string(fetched.token.raw)),
                                     fetched.token.range),
                        fetched.lexer, fetched.token)
      [] fetched.token.kind = "ExprStart" ->
            parse_item_expr(parse_expression(parse_filters(fetched.lexer), fetched.token),
                            fetched.token.range)
      [] fetched.token.kind = "ExprEnd" ->
            Parser_item(TRUE, Parsed(ItemConstant(<<"}">>), fetched.token.range),
                        fetched.lexer, fetched.token)
      [] OTHER -> ParseErr("PipeOutsideExpr", fetched.token.range)

\* The match of parse_item on the token just fetched.
parse_item_token(fetched) ==
    CASE fetched.token.kind = "None" ->
            Parser_item(FALSE, Parsed(ItemConstant(<<>>), Range(0, 0)),
                        fetched.lexer, fetched.token)
      [] fetched.token.kind = "Raw" ->
            Parser_item(TRUE, Parsed(ItemConstant(chars_to_string(fetched.token.raw)),
                                     fetched.token.range),
                        fetched.lexer, fetched.token)
      [] fetched.token.kind = "ExprStart" ->
            parse_item_expr(parse_expression(parse_filters(fetched.lexer), fetched.token),
                            fetched.token.range)
      [] fetched.token.kind = "ExprEnd" ->
            ParseErr("UnmatchedExprEnd", fetched.token.range)
      [] OTHER -> ParseErr("PipeOutsideExpr", fetched.token.range)

\* Parser::parse_item
parse_item(lexer) == parse_item_token(read_token(lexer))

RECURSIVE parse_items_loop(_, _)

\* while let Some(item) = self.parse_item()? { items.push(item) }
parse_items_push(item, items_) ==
    IF ~item.ok THEN ParseErr(item.kind, item.range)
    ELSE IF item.some THEN parse_items_loop(item.lexer, Append(items_, item.item))
         ELSE ParseOk(items_)

parse_items_loop(lexer, items_) == parse_items_push(parse_item(lexer), items_)

\* Parser::new(input, config).parse_items()
parse_items(input) == parse_items_loop(Lexer_new(input), <<>>)

\* The sources explored: up to MaxUnits lexical units put together.
Units == {<<"{">>, <<"}">>, <<"|">>, <<"f">>, <<Wide>>, <<Escape, "|">>,
          <<"#", "2", "-", "1">>, <<"#", "1", "-", "2">>}

RECURSIVE SourcesOf(_)
SourcesOf(n) ==
    IF n = 0 THEN {<<>>}
    ELSE LET shorter == SourcesOf(n - 1)
         IN  shorter \cup {s \o u : s \in shorter, u \in Units}

Sources == SourcesOf(MaxUnits)

\* The length of a source in bytes.
source_len(input) == chars_len([k \in 1..Len(input) |-> RawChar(input[k])])

InitParser ==
    /\ parser \in {[state |-> "new", source |-> s, result |-> ParseOk(<<>>)] :
                      s \in Sources}
    /\ builder = NoBuilder
    /\ rew = TopRew
    /\ spawned = NoSpawned
    /\ pattern = <<>>
    /\ args = Args(pattern, 0, FALSE, "Full", DEFAULT_BUF_SIZE)
    /\ bytes = NoBytes
    /\ pc = "done"
    /\ nin = 0
    /\ tty = FALSE
    /\ Fresh

\* Parser::new(source, config).parse_items()
Parse ==
    /\ parser.state = "new"
    /\ parser' = [parser EXCEPT !.state = "parsed",
                                !.result = parse_items(parser.source)]
    /\ UNCHANGED <<args, pattern, bytes, spawned, builder, rew, nin, tty, procs, pipes,
                   mainVars, fwdVars>>

NextParser == Parse

SpecParser == InitParser /\ [][NextParser]_vars

----------------------------------------------------------------------------
\* Helpers of the properties.

\* The process whose stdout is pipe q.
Writer(q) == CHOOSE p \in 1..Len(procs) : procs[p].out = q

\* The indices of the Expression readers among the items.
Readers == {i \in 1..Len(items) : items[i].type = "reader"}

\* Records the pipeline behind item i has written to its stdout.
Written(i) == procs[Writer(items[i].pipe)].nout

Min(S) == CHOOSE x \in S : \A y \in S : x <= y

\* Piece x is what item i contributes to the k-th output record.
PieceOk(i, k, x) ==
    IF pattern[i].type = "const"
    THEN x = pattern[i].value
    ELSE x.src = Writer(items[i].pipe) /\ x.seq = k

----------------------------------------------------------------------------
\* C1: every output record is, in item order, each Constant and the k-th
\* record of every Expression's stdout, for k = 1, 2, ... in turn; the record
\* being composed holds pieces of the next record only.
C1_Lockstep ==
    /\ \A k \in 1..Len(output) :
          /\ Len(output[k]) = Len(pattern)
          /\ \A i \in 1..Len(pattern) : PieceOk(i, k, output[k][i])
    /\ Len(buffer) <= Len(pattern)
    /\ \A i \in 1..Len(buffer) : PieceOk(i, Len(output) + 1, buffer[i])

C1_Witness ==
    /\ Len(output) >= 2
    /\ Cardinality(Readers) >= 2
    /\ \E i \in 1..Len(pattern) : pattern[i].type = "const"

\* C2: once a reader has reported end-of-stream, the number of records
\* written is the least number of records any Expression's pipeline wrote.
C2_MinRecords ==
    eos # 0 => Len(output) = Min({Written(i) : i \in Readers})

C2_Witness ==
    /\ eos # 0
    /\ Len(output) >= 1
    /\ \E i \in Readers : Written(i) > Len(output)

\* C3: each Consumer has received a prefix 1, 2, ..., k of the chunks read
\* from parent stdin, and every open Consumer has received every chunk read
\* before the forwarder reads the next one.
C3_InOrder ==
    \A j \in 1..Len(stdins) :
        LET d == delivered[j]
            b == pipes[stdins[j].pipe].buf
        IN  /\ Len(d) <= nread
            /\ \A i \in 1..Len(d) : d[i] = i
            /\ Len(b) <= Len(d)
            /\ \A i \in 1..Len(b) :
                  b[i] = Rec(0, d[Len(d) - Len(b) + i], d[Len(d) - Len(b) + i])
            /\ (stdins[j].some /\ fpc = "read") => Len(d) = nread
            /\ (stdins[j].some /\ fpc = "write") =>
                  Len(d) = IF j < fj THEN nread ELSE nread - 1

C3_Witness ==
    /\ Len(stdins) >= 2
    /\ \A j \in 1..Len(stdins) : delivered[j] = <<1, 2>>

\* C4 (as claimed): when eval_pattern has returned Ok after parent stdin was
\* exhausted and every child has ended, no child is left that was neither
\* reaped nor killed.
C4_NoChildLeft ==
    (/\ pc = "done"
     /\ result = "ok"
     /\ fwhy = "exhausted"
     /\ \A p \in 1..Len(procs) : procs[p].st # "run")
    => \A p \in 1..Len(procs) : procs[p].reaped \/ p \in killed

\* C5 (as claimed): when eval_pattern has returned, on any path, every child
\* spawned has been reaped by a wait or killed.
C5_AllReapedOrKilled ==
    pc = "done" => \A p \in 1..Len(procs) : procs[p].reaped \/ p \in killed

\* C6 (as claimed): when the output loop fails (read_line or write_line),
\* try_wait has been called on every child before the error is returned.
C6_ShutdownAfterError ==
    (pc = "done" /\ errsrc \in {"read", "write"})
    => \A i \in 1..Len(children) : children[i] \in trywaited

\* C7: a broken pipe on a Consumer stdin is no error of the forwarder; that
\* entry is taken and never written again, every other entry is left as it
\* is, and the open entries still get the same and every later chunk.
C7_BrokenPipe ==
    /\ [][/\ \A j \in 1..Len(stdins) :
                (~stdins[j].some =>
                    /\ ~stdins'[j].some
                    /\ delivered'[j] = delivered[j]
                    /\ Len(pipes'[stdins[j].pipe].buf) <= Len(pipes[stdins[j].pipe].buf))
          /\ closedBy' # closedBy =>
                    /\ fpc' = "write"
                    /\ fres' = "none"
                    /\ \A j \in 1..Len(stdins) :
                          (j \notin closedBy' => stdins'[j] = stdins[j])
          ]_vars
    /\ [](\A j \in closedBy : ~stdins[j].some /\ ~pipes[stdins[j].pipe].w)
    /\ []((closedBy # {} /\ fpc = "read") =>
              \A j \in 1..Len(stdins) : stdins[j].some => Len(delivered[j]) = nread)

C7_Witness ==
    /\ closedBy # {}
    /\ \E i \in closedBy : \E j \in 1..Len(stdins) :
          /\ stdins[j].some
          /\ Len(delivered[j]) = 2
          /\ Len(delivered[i]) < 2

\* The input of process p has ended: it has none, or nobody can write to it.
InputEnded(p) == procs[p].inp = 0 \/ ~pipes[procs[p].inp].w

\* C8 (as claimed): after one Consumer's stdin was closed, no sibling child is
\* killed by the executor before its own input has ended.
C8_KilledOnlyAfterInput ==
    \A j \in closedBy : \A p \in killed :
        procs[p].inp # stdins[j].pipe => InputEnded(p)

\* C8 (amended): a stdin is taken by the forwarder only when its own pipe is
\* broken, so every other Consumer keeps receiving; the executor kills a
\* child only after the output loop ended at some reader's end-of-stream.
C8_KilledOnlyAfterLoop ==
    /\ \A p \in killed : eos # 0 /\ pc \in {"wait2", "kill", "join", "done"}
    /\ fpc \in {"read", "write"} =>
          \A j \in 1..Len(stdins) :
              ~stdins[j].some => (j \in closedBy /\ ~pipes[stdins[j].pipe].r)
    /\ (closedBy # {} /\ fpc = "write") =>
          \A j \in 1..Len(stdins) :
              (stdins[j].some /\ j < fj) => Len(delivered[j]) = nread

C8_Witness ==
    \E j \in closedBy : \E p \in killed :
        /\ procs[p].inp # stdins[j].pipe
        /\ procs[p].inp # 0
        /\ pipes[procs[p].inp].w

\* C9 (amended): the forwarder returns Ok when parent stdin is exhausted, when
\* every stdin has been taken after a broken pipe, or at once when there is no
\* stdin (having read nothing), and otherwise only with an IO error; it never
\* reads parent stdin while every stdin is taken.
C9_Return ==
    /\ fpc = "done" =>
          \/ fwhy = "exhausted" /\ fres = "ok" /\ nread = nin /\ ~tty
          \/ fwhy = "allclosed" /\ fres = "ok" /\ stdins # <<>> /\ AllNone(stdins)
          \/ fwhy = "noconsumer" /\ fres = "ok" /\ stdins = <<>> /\ nread = 0
          \/ fwhy = "ioerror" /\ fres = "err"
    /\ fpc = "read" => ~AllNone(stdins)
    /\ (fpc # "none" /\ stdins = <<>>) => (nread = 0 /\ fpc \in {"start", "done"})

C9_Witness ==
    /\ fpc = "done"
    /\ fwhy = "allclosed"
    /\ nread < nin

\* C9 (as claimed): in addition, once every Consumer stdin has been closed by
\* its child the forwarder is not left blocked in read_chunk on a parent
\* stdin that delivers nothing more.
C9_NotBlockedOnceClosed ==
    /\ C9_Return
    /\ (stdins # <<>> /\ \A j \in 1..Len(stdins) : ~pipes[stdins[j].pipe].r)
          => ~(fpc = "read" /\ nread = nin /\ tty)

\* C10: once the forwarder has returned, for whatever reason, the write end
\* of every Consumer stdin is closed, so a child that has drained its stdin
\* is at end-of-file.
C10_StdinsClosed ==
    fpc = "done" =>
        \A j \in 1..Len(stdins) :
            /\ ~pipes[stdins[j].pipe].w
            /\ \A p \in 1..Len(procs) :
                  (procs[p].inp = stdins[j].pipe /\ pipes[stdins[j].pipe].buf = <<>>)
                  => AtEof(p)

C10_Witness ==
    /\ fpc = "done"
    /\ fres = "err"
    /\ \E j \in 1..Len(stdins) : \E p \in 1..Len(procs) :
          /\ stdins[j].some
          /\ procs[p].inp = stdins[j].pipe
          /\ procs[p].st = "run"

\* C11 (as claimed): when eval_pattern has returned after the output loop
\* ended, try_wait has been called on every child, no child is left running,
\* and kill was called only after some child was found not to have exited.
C11_ShutdownEveryChild ==
    (pc = "done" /\ eos # 0) =>
        /\ \A i \in 1..Len(children) :
              /\ children[i] \in trywaited
              /\ procs[children[i]].st # "run"
        /\ all_finished => killed = {}

\* C12: leaving the join step never waits for the forwarder: the step is
\* enabled whatever the thread is doing, it returns the thread's error if the
\* thread has finished with one and Ok otherwise, and it leaves the thread
\* as it is.
C12_JoinNeverBlocks ==
    /\ [][(pc = "join" /\ pc' # "join") =>
              /\ pc' = "done"
              /\ result' = IF fpc = "done" /\ fres = "err" THEN "err" ELSE "ok"
              /\ UNCHANGED fwdVars]_vars
    /\ [](pc = "join" => ENABLED Join)
    /\ [](errsrc = "thread" => (fpc = "done" /\ fres = "err"))

C12_Witness ==
    /\ pc = "done"
    /\ result = "ok"
    /\ eos # 0
    /\ fpc = "read"
    /\ nread > 0

----------------------------------------------------------------------------
\* The state belongs to an evaluation by eval_simple_pattern.
FastPath ==
    \/ pc \in {"simple", "swrite"}
    \/ pc = "done" /\ items = <<>> /\ errsrc # "build"

\* The bytes of an output record: a Constant's value, a record's value.
Bytes(rec) ==
    [i \in 1..Len(rec) |-> IF pattern[i].type = "const" THEN rec[i] ELSE rec[i].val]

\* C14: for a pattern that simplifies, the k-th output record of either
\* evaluation has the bytes eval_simple_pattern writes for the k-th input
\* record, an evaluation that returns Ok has written one record for every
\* input record, and the fast path has spawned no process.
C14_SimplifySound ==
    try_simplify(pattern) =>
        /\ \A k \in 1..Len(output) : Bytes(output[k]) = SimpleRecord(pattern, k)
        /\ (pc = "done" /\ result = "ok") => Len(output) = nin
        /\ FastPath => procs = <<>>

C14_Witness ==
    /\ try_simplify(pattern)
    /\ ~FastPath
    /\ pc = "done"
    /\ result = "ok"
    /\ Len(output) = 2
    /\ Cardinality(Readers) = 2

\* C15: on the fast path the k-th output record is, in item order, every
\* Constant and one copy of the k-th input record for every Expression; one
\* record is written for every record read; there is no child process, no
\* pipe and no forwarder thread.
C15_FastPath ==
    FastPath =>
        /\ \A k \in 1..Len(output) : output[k] = SimpleRecord(pattern, Rec(0, k, k))
        /\ Len(output) \in {nread - 1, nread}
        /\ pc = "simple" => Len(output) = nread
        /\ pc = "swrite" => Len(output) = nread - 1
        /\ \A i \in 1..Len(buffer) : buffer[i] = SimpleRecord(pattern, Rec(0, nread, nread))[i]
        /\ (pc = "done" /\ result = "ok") => Len(output) = nin
        /\ procs = <<>> /\ pipes = <<>> /\ children = <<>> /\ stdins = <<>>
        /\ fpc = "none"

C15_Witness ==
    /\ FastPath
    /\ pc = "done"
    /\ result = "ok"
    /\ Len(output) = 2
    /\ Cardinality({i \in 1..Len(pattern) : pattern[i].type = "expr"}) = 2

----------------------------------------------------------------------------
\* The processes of the expressions built so far.

RECURSIVE SpawnsBefore(_)
SpawnsBefore(i) ==
    IF i <= 1 THEN 0
    ELSE SpawnsBefore(i - 1)
         + (IF pattern[i - 1].type = "expr" THEN Spawns(pattern[i - 1]) ELSE 0)

\* The first and the last process of the expression at item i.
First(i) == SpawnsBefore(i) + 1
Last(i) == SpawnsBefore(i) + Spawns(pattern[i])

\* The expressions that have been built.
BuiltExprs == {i \in 1..Len(items) : pattern[i].type = "expr"}

\* Pipe q is the stdin of a Consumer.
IsConsumer(q) == \E j \in 1..Len(stdins) : stdins[j].pipe = q

\* C16 (as claimed): no process of an Expression built with no_stdin=true
\* has a stdin that is registered as a Consumer, whatever its body.
C16_NoStdinNoConsumer ==
    \A i \in BuiltExprs :
        pattern[i].no_stdin =>
            \A p \in First(i)..Last(i) : ~IsConsumer(procs[p].inp)

\* C17 (as claimed): the first command of a built non-empty pipeline has a
\* pipe as stdin when it is not a Generator and no_stdin is not set, and the
\* null device otherwise; a first command whose stdin is not a Consumer has
\* no pipe left open to it.
C17_FirstStdin ==
    \A i \in BuiltExprs :
        (pattern[i].body = "pipe" /\ pattern[i].cmds # <<>>) =>
            LET p == procs[First(i)]
                disconnected == \/ pattern[i].no_stdin
                                \/ build_command(pattern[i].cmds[1]).group = "Generators"
            IN  /\ disconnected => p.inp = 0
                /\ ~disconnected => p.inp # 0
                /\ (p.inp # 0 /\ ~IsConsumer(p.inp)) => ~pipes[p.inp].w

\* C18 (as claimed): in a built pipeline every command after the first has
\* the previous child's stdout as its stdin, every stdout is a pipe and the
\* pipeline's stdout is the last child's stdout.
C18_ChainedStdin ==
    \A i \in BuiltExprs :
        (pattern[i].body = "pipe" /\ pattern[i].cmds # <<>>) =>
            /\ \A k \in 2..Len(pattern[i].cmds) :
                  procs[First(i) + k - 1].inp = procs[First(i) + k - 2].out
            /\ \A p \in First(i)..Last(i) : procs[p].out # 0
            /\ items[i].pipe = procs[Last(i)].out

\* C18 (amended): in a built pipeline a command after the first that is not
\* a Generator has the previous child's stdout as its stdin; a Generator has
\* the null device and the previous child's stdout is closed; every command
\* is spawned as build_command built it, with a pipe of its own as stdout,
\* and the pipeline's stdout is the last child's stdout, open for reading.
C18_Chained ==
    \A i \in BuiltExprs :
        (pattern[i].body = "pipe" /\ pattern[i].cmds # <<>>) =>
            /\ \A k \in 2..Len(pattern[i].cmds) :
                  LET p    == procs[First(i) + k - 1]
                      prev == procs[First(i) + k - 2]
                  IN  IF build_command(pattern[i].cmds[k]).group = "Generators"
                      THEN p.inp = 0 /\ ~pipes[prev.out].r
                      ELSE p.inp = prev.out /\ pipes[prev.out].r
            /\ \A k \in 1..Len(pattern[i].cmds) :
                  procs[First(i) + k - 1].cmd = build_command(pattern[i].cmds[k]).command
            /\ \A p \in First(i)..Last(i) :
                  /\ procs[p].out # 0
                  /\ pipes[procs[p].out].w
                  /\ \A p2 \in 1..Len(procs) :
                        p2 # p => /\ procs[p2].out # procs[p].out
                                  /\ procs[p].inp # 0 => procs[p2].inp # procs[p].inp
            /\ items[i].pipe = procs[Last(i)].out
            /\ pipes[items[i].pipe].r

C18_Witness ==
    /\ Len(pattern) = 2
    /\ Len(items) = 2
    /\ Len(pattern[2].cmds) = 2
    /\ build_command(pattern[2].cmds[1]).group = "Generators"
    /\ build_command(pattern[2].cmds[2]).group # "Generators"
    /\ procs[Last(2)].inp = procs[First(2)].out
    /\ procs[First(2)].inp = 0

\* C19: an Expression with an empty pipeline built by eval_pattern is one
\* process, the internal `cat`, with a pipe as stdin (a Consumer) and the
\* Expression's reader on its stdout; the k-th record read from it is the
\* k-th record of parent stdin.
C19_EmptyPipelineIsCat ==
    \A i \in BuiltExprs :
        (pattern[i].body = "pipe" /\ pattern[i].cmds = <<>>) =>
            LET p == procs[First(i)]
            IN  /\ First(i) = Last(i)
                /\ p.kind = "int"
                /\ p.cmd = build_internal_command(<<"cat">>, <<>>)
                /\ p.inp # 0
                /\ IsConsumer(p.inp)
                /\ p.out = items[i].pipe
                /\ \A k \in 1..Len(output) : output[k][i] = Rec(First(i), k, k)
                /\ i <= Len(buffer) =>
                      buffer[i] = Rec(First(i), Len(output) + 1, Len(output) + 1)

C19_Witness ==
    /\ ~try_simplify(pattern)
    /\ Len(output) = 2
    /\ \E i \in BuiltExprs : pattern[i].body = "pipe" /\ pattern[i].cmds = <<>>

\* C20: every command of a built pipeline that has external=true runs the
\* program of its own name with its own arguments, is not treated as a
\* Generator and is not run through the current executable, also when its
\* name is a built-in command's or the program's own.
C20_ExternalUnchanged ==
    \A i \in BuiltExprs :
        pattern[i].body = "pipe" =>
            \A k \in 1..Len(pattern[i].cmds) :
                LET params == pattern[i].cmds[k]
                    p      == procs[First(i) + k - 1]
                IN  params.external =>
                        /\ p.cmd.program = params.name
                        /\ p.cmd.args = params.args
                        /\ p.cmd.program # current_exe
                        /\ p.kind = "ext"
                        /\ build_command(params).group = "Transformers"
                        /\ p.inp # 0

C20_Witness ==
    /\ Len(pattern) = 1
    /\ Len(items) = 1
    /\ pattern[1].cmds = <<Command("seq", <<>>, TRUE), Command(crate_name, <<"seq", "1">>, TRUE)>>
    /\ ~pattern[1].no_stdin
    /\ procs[2].inp = procs[1].out

\* C21: a command of a built pipeline that is not external and is named as
\* the program itself runs the current executable.  When its first argument
\* names a built-in command, that argument is the sub-command, the remaining
\* arguments follow it, and the process is treated as that built-in's group
\* (a Generator gets the null device as stdin).  With no argument or an
\* unknown one, the executable is run with the arguments unchanged and is
\* treated as a Transformer: its stdin is connected.
C21_CrateNameUnwrapped ==
    \A i \in BuiltExprs :
        pattern[i].body = "pipe" =>
            \A k \in 1..Len(pattern[i].cmds) :
                LET params == pattern[i].cmds[k]
                    p      == procs[First(i) + k - 1]
                    sub    == Head(params.args)
                IN  (~params.external /\ params.name = crate_name) =>
                        /\ p.cmd.program = current_exe
                        /\ IF params.args # <<>> /\ sub \in {"seq", "cat", "upper"}
                           THEN /\ p.cmd.args = <<sub>> \o Tail(params.args)
                                /\ p.kind = "gen" <=> sub = "seq"
                                /\ p.inp = 0 <=> sub = "seq"
                           ELSE /\ p.cmd.args = params.args
                                /\ p.kind = "int"
                                /\ p.inp # 0

C21_Witness ==
    /\ Len(pattern) = 1
    /\ Len(items) = 1
    /\ pattern[1].cmds = <<Command(crate_name, <<"tr">>, FALSE),
                           Command(crate_name, <<"seq", "1">>, FALSE)>>
    /\ procs[1].kind = "int"
    /\ procs[2].kind = "gen"
    /\ procs[2].cmd.args = <<"seq", "1">>

\* C22: every command of a built pipeline is resolved, and the same command
\* is resolved the same way wherever it stands.  A command that is not
\* external and whose name is a built-in's runs the current executable with
\* the name in front of its arguments (a Generator with the null device as
\* stdin); a command whose name is neither a built-in's nor the program's
\* own runs the program of that name with its arguments, stdin connected.
C22_ResolutionTotal ==
    \A i \in BuiltExprs :
        pattern[i].body = "pipe" =>
            \A k \in 1..Len(pattern[i].cmds) :
                LET params == pattern[i].cmds[k]
                    p      == procs[First(i) + k - 1]
                IN  /\ (~params.external /\ params.name \in {"seq", "cat", "upper"}) =>
                          /\ p.cmd.program = current_exe
                          /\ p.cmd.args = <<params.name>> \o params.args
                          /\ p.kind = IF params.name = "seq" THEN "gen" ELSE "int"
                          /\ p.inp = 0 <=> params.name = "seq"
                    /\ params.name \notin {"seq", "cat", "upper", crate_name} =>
                          /\ p.cmd.program = params.name
                          /\ p.cmd.args = params.args
                          /\ p.kind = "ext"
                          /\ p.inp # 0
                    /\ p.kind \in {"gen", "int", "ext"}
                    /\ \A j \in BuiltExprs :
                          pattern[j].body = "pipe" =>
                              \A l \in 1..Len(pattern[j].cmds) :
                                  pattern[j].cmds[l] = params =>
                                      LET q == procs[First(j) + l - 1]
                                      IN  q.cmd = p.cmd /\ q.kind = p.kind

C22_Witness ==
    /\ Len(pattern) = 1
    /\ Len(items) = 1
    /\ pattern[1].cmds = <<Command("seq", <<"tr">>, FALSE),
                           Command("tr", <<"seq", "1">>, FALSE)>>
    /\ procs[1].kind = "gen"
    /\ procs[1].cmd.args = <<"seq", "tr">>
    /\ procs[2].kind = "ext"
    /\ procs[2].cmd.program = "tr"

\* C23: a command of a built pipeline has the null device as stdin exactly
\* when it is an internal command of the Generators group, which is exactly
\* when Group::stdin_mode of its group is Disconnected; every other internal
\* command, every external command and the `cat` of an empty pipeline have
\* a pipe as stdin.
C23_StdinMode ==
    \A i \in BuiltExprs :
        pattern[i].body = "pipe" =>
            /\ \A k \in 1..Len(pattern[i].cmds) :
                  LET built == build_command(pattern[i].cmds[k])
                      p     == procs[First(i) + k - 1]
                  IN  /\ p.inp = 0 <=> (p.cmd.program = current_exe
                                          /\ built.group = "Generators")
                      /\ p.inp = 0 <=> stdin_mode(built.group) = "Disconnected"
                      /\ p.inp = 0 <=> p.kind = "gen"
                      /\ p.cmd.program # current_exe => p.inp \in 1..Len(pipes)
            /\ pattern[i].cmds = <<>> => procs[First(i)].inp \in 1..Len(pipes)

C23_Witness ==
    /\ Len(pattern) = 1
    /\ Len(items) = 1
    /\ pattern[1].cmds = <<Command("seq", <<>>, FALSE), Command("cat", <<>>, FALSE)>>
    /\ procs[1].inp = 0
    /\ procs[2].inp = procs[1].out
    /\ procs[2].kind = "int"

\* The position, in an output record, of the piece that item j of the
\* pattern given on the command line contributes.
PiecePos(j) ==
    IF args.quote = 0 THEN j
    ELSE j + 2 * Cardinality({l \in 1..(j - 1) : args.pattern[l].type = "expr"})
           + (IF args.pattern[j].type = "expr" THEN 1 ELSE 0)

\* The quote that the -q flags select.
QuoteByte == IF args.quote = 1 THEN "'" ELSE "\""

\* C24: in every output record, on the fast and on the general path, the
\* pieces follow the items of the pattern given on the command line: a
\* Constant contributes its value and nothing else; an Expression
\* contributes its record for this round, and with -q the piece right before
\* it and the piece right after it are the quote: the single quote for one
\* -q, the double quote for more.  Without -q no piece is added.
C24_Quoted ==
    pc # "run" =>
        \A k \in 1..Len(output) :
            LET o == output[k]
                n == Cardinality({j \in 1..Len(args.pattern) :
                                     args.pattern[j].type = "expr"})
            IN  /\ Len(o) = Len(args.pattern) + (IF args.quote > 0 THEN 2 * n ELSE 0)
                /\ \A j \in 1..Len(args.pattern) :
                      LET pos == PiecePos(j)
                      IN  /\ pattern[pos] = args.pattern[j]
                          /\ IF args.pattern[j].type = "const"
                             THEN o[pos] = args.pattern[j].value
                             ELSE /\ o[pos].seq = k
                                  /\ args.quote > 0 =>
                                        /\ pattern[pos - 1].type = "const"
                                        /\ pattern[pos + 1].type = "const"
                                        /\ o[pos - 1] = QuoteByte
                                        /\ o[pos + 1] = QuoteByte

C24_Witness ==
    /\ args.quote = 2
    /\ Len(args.pattern) = 3
    /\ ~FastPath
    /\ Len(output) = 2
    /\ output[2][2].val = 2
    /\ output[2][3] = "\""
    /\ output[2][4] = "a"

\* C25: every process that runs an internal command, the `cat` of an empty
\* pipeline included, runs the current executable with REW_NULL,
\* REW_BUF_MODE, REW_BUF_SIZE and _REW_SPAWNED_BY in its environment, and
\* what a built-in reads from the first three is the parent's separator,
\* buffer mode and buffer size.
C25_EnvPropagated ==
    \A p \in 1..Len(procs) :
        LET env == procs[p].cmd.env
        IN  /\ procs[p].kind \in {"gen", "int"} => procs[p].cmd.program = current_exe
            /\ procs[p].cmd.program = current_exe =>
                  /\ {"REW_NULL", "REW_BUF_MODE", "REW_BUF_SIZE", "_REW_SPAWNED_BY"}
                         \subseteq DOMAIN env
                  /\ parse_bool(env["REW_NULL"]) = args.null
                  /\ parse_buf_mode(env["REW_BUF_MODE"]) = args.buf_mode
                  /\ parse_buf_size(env["REW_BUF_SIZE"]) = args.buf_size
                  /\ env["_REW_SPAWNED_BY"] = get_spawned_by("x")

C25_Witness ==
    /\ args.null
    /\ args.buf_mode = "Line"
    /\ args.buf_size # DEFAULT_BUF_SIZE
    /\ Len(procs) = 1
    /\ procs[1].kind = "gen"
    /\ procs[1].cmd.env["REW_NULL"] = "true"
    /\ procs[1].cmd.env["REW_BUF_MODE"] = "line"

\* What the run with the other separator writes when it is given the same
\* records, ended by that separator.
TwinOut ==
    LET lines == read_lines(bytes.inp, SepByte(args.null))
    IN  eval_bytes(args.pattern, ~args.null, write_lines(lines, SepByte(~args.null)))

\* bs with every byte `from` replaced by the byte `to`.
Replace(bs, from, to) == [k \in 1..Len(bs) |-> IF bs[k] = from THEN to ELSE bs[k]]

\* Every command of the pattern is an internal one.
AllInternal(p) ==
    \A i \in 1..Len(p) :
        p[i].type = "expr" =>
            \A k \in 1..Len(p[i].cmds) :
                build_command(p[i].cmds[k]).command.program = current_exe

\* The output of the run and of its twin hold the same records in the same
\* order and differ in the separator only; the output is one record, ended
\* by the run's separator, for every record of the input.
Symmetric ==
    LET sep   == SepByte(args.null)
        other == SepByte(~args.null)
    IN  /\ read_lines(bytes.out, sep) = read_lines(TwinOut, other)
        /\ Replace(bytes.out, sep, other) = TwinOut
        /\ bytes.out = write_lines(read_lines(bytes.out, sep), sep)
        /\ Len(read_lines(bytes.out, sep)) = Len(read_lines(bytes.inp, sep))

\* C26 (as claimed): for every pattern, the run with --null on NUL-ended
\* records and the run without it on the same records ended by newlines
\* write the same records in the same order, ended by the run's separator.
C26_SeparatorSymmetry ==
    bytes.done => Symmetric

\* C26 (amended): the same, for the patterns whose commands are all
\* internal ones, on the fast and on the general path.
C26_SeparatorSymmetryInternal ==
    (bytes.done /\ AllInternal(args.pattern)) => Symmetric

C26_Witness ==
    /\ bytes.done
    /\ args.null
    /\ ~try_simplify(args.pattern)
    /\ Len(args.pattern) = 2
    /\ args.pattern[1].type = "const"
    /\ bytes.inp = <<" ", "a", "NUL", "a", "NUL">>
    /\ bytes.out = <<"b", "a", "NUL", "b", "a", "NUL">>

\* The chain of an error names every entry of h's Context, under a message
\* of the operation, and ends in the error that was observed.
Annotated(h, chain) ==
    /\ Len(chain) >= 2
    /\ chain[1].msg # ""
    /\ chain[Len(chain)].entry = ""
    /\ \A k \in 1..Len(h.context) :
          \E j \in 1..(Len(chain) - 1) : chain[j].entry = h.context[k]

\* C27: write_all on the stdin of a spawned child (process.rs, spawn.rs and
\* x.rs alike) returns Ok(true) when the write succeeded; returns Ok(false),
\* never an error, when the reader of the pipe is gone, and only then; and
\* returns an error that carries the handle's Context for any other failure.
C27_WriteAll ==
    [][OpWriteAll =>
          LET r  == spawned'.ret
              os == spawned'.os
          IN  /\ os = "Ok" => r = Ok("true")
              /\ ~spawned.peer => (os = "BrokenPipe" /\ r = Ok("false"))
              /\ r = Ok("false") => ~spawned.peer
              /\ os = "BrokenPipe" => r.ok
              /\ os \notin {"Ok", "BrokenPipe"} =>
                    (~r.ok /\ Annotated(spawned, r.chain))]_vars

C27_Witness ==
    /\ spawned.impl = "process"
    /\ spawned.op = "write_all"
    /\ spawned.os = "BrokenPipe"
    /\ spawned.ret = Ok("false")
    /\ spawned.child = "running"
    /\ Len(spawned.context) = 3

C29_WaitError ==
    spawned.op = "wait" =>
        LET r == spawned.ret
        IN  /\ r.ok <=> spawned.os = "0"
            /\ spawned.os = "1" =>
                  r.chain[Len(r.chain)].msg = "child process exited with code 1"
            /\ spawned.os = "signal" =>
                  r.chain[Len(r.chain)].msg = "child process was terminated by a signal"

\* The message of each operation of a Spawned handle.
OpMessage(op) ==
    CASE op = "spawn" -> "failed to spawn child process"
      [] op = "write_all" -> "failed to write to child process stdin"
      [] op = "read_line" -> "failed to read from child process stdout"
      [] op = "kill" -> "failed to kill child process"
      [] OTHER -> "child proces execution failed"

\* C30 (as claimed): the chain of every error a Spawned operation returns
\* is the operation's message, then every entry of the handle's Context,
\* once each, in the order they were added, then the error observed.
C30_ContextInOrder ==
    (spawned.impl \in {"process", "spawn"} /\ ~spawned.ret.ok) =>
        LET chain == spawned.ret.chain
            ctx   == spawned.context
        IN  /\ Len(chain) = Len(ctx) + 2
            /\ chain[1] = Msg(OpMessage(spawned.op))
            /\ \A k \in 1..Len(ctx) : chain[1 + k] = Entry(ctx[k])
            /\ chain[Len(chain)].entry = ""

\* C31: a stdin or stdout handle taken from a child carries a copy of the
\* child's Context as it was when taken (by Builder::command or by a later
\* take_stdin), and Context::add on one holder changes the Context of that
\* holder only: the child's and every other handle's stay as they were.
C31_HandleContextCopy ==
    [][/\ (BuilderCommand /\ builder'.state = "builder") =>
             LET k == Len(builder'.children)
             IN  /\ builder'.stdout = Some(k, builder'.stdout.ctx)
                 /\ ContextOf(builder', <<"stdout", k>>) = ContextOf(builder', <<"child", k>>)
                 /\ (builder'.stdin.some /\ builder'.stdin.of = k) =>
                       ContextOf(builder', <<"stdin", k>>)
                          = ContextOf(builder', <<"child", k>>)
       /\ TakeStdin =>
             LET j == Len(builder'.taken)
                 k == builder'.taken[j].of
             IN  /\ ContextOf(builder', <<"taken", j>>) = ContextOf(builder, <<"child", k>>)
                 /\ \A h \in Holders(builder) : ContextOf(builder', h) = ContextOf(builder, h)
       /\ ContextAdd =>
             /\ ContextOf(builder', builder'.target)
                   = Append(ContextOf(builder, builder'.target), "note")
             /\ \A h \in Holders(builder) \ {builder'.target} :
                   ContextOf(builder', h) = ContextOf(builder, h)
      ]_vars

\* A handle taken after Pipeline::context (it carries "expression") got an
\* entry its child does not have.
C31_Witness ==
    /\ builder.state = "pipeline"
    /\ builder.last = "add"
    /\ builder.target[1] = "taken"
    /\ LET h == builder.taken[builder.target[2]]
       IN  /\ builder.heap[h.ctx][Len(builder.heap[h.ctx]) - 1] = "expression"
           /\ ContextOf(builder, <<"child", h.of>>) # builder.heap[h.ctx]
           /\ builder.heap[h.ctx][Len(builder.heap[h.ctx])] = "note"

\* C38: in the pipeline Builder, once a command was added with
\* StdinMode::Disconnected the builder's stdin mode is Disconnected from then
\* on and the builder, and the Pipeline built from it, has no stdin; a stdin
\* captured from an earlier command is dropped.  The builder holds one child
\* for every command added.
C38_DisconnectedLatches ==
    /\ [](builder.state \in {"builder", "pipeline"} =>
            /\ Len(builder.children) = Len(builder.added)
            /\ (\E i \in 1..Len(builder.added) : builder.added[i] = "Disconnected") =>
                  /\ builder.stdin_mode = "Disconnected"
                  /\ builder.stdin = None)
    /\ [][(/\ BuilderCommand
           /\ builder'.state = "builder"
           /\ builder'.added[Len(builder'.added)] = "Disconnected"
           /\ builder.stdin.some)
          => /\ builder'.stdin = None
             /\ <<"stdin", builder.stdin.of>> \in builder'.dropped]_vars

\* A Pipeline of two commands: the first one's stdin was captured, the
\* second one was Disconnected.
C38_Witness ==
    /\ builder.state = "pipeline"
    /\ builder.added = <<"Connected", "Disconnected">>
    /\ <<"stdin", 1>> \in builder.dropped
    /\ builder.stdin = None

\* The items parse returned.
ParsedItems == parser.result.value

\* C32: for every pattern that parses successfully the item ranges are in
\* increasing order, do not overlap and cover the source exactly: the first
\* item starts at byte 0, each item starts where the previous one ends and
\* the last one ends at the length of the source.
C32_RangesCoverSource ==
    (parser.state = "parsed" /\ parser.result.ok) =>
       /\ ParsedItems = <<>> <=> parser.source = <<>>
       /\ \A k \in 1..Len(ParsedItems) :
             /\ ParsedItems[k].range.start < ParsedItems[k].range.end
             /\ ParsedItems[k].range.start
                   = IF k = 1 THEN 0 ELSE ParsedItems[k - 1].range.end
             /\ k = Len(ParsedItems) =>
                   ParsedItems[k].range.end = source_len(parser.source)

\* A constant of a two-byte character and an expression with one filter
\* were parsed.
C32_Witness ==
    /\ parser.state = "parsed"
    /\ parser.result.ok
    /\ parser.source = <<Wide, "{", "f", "}">>
    /\ Len(ParsedItems) = 2
    /\ ParsedItems[2].value.item = "Expression"
    /\ ParsedItems[2].range = Range(2, 5)

\* The tokens of the lexer on a source, each with the index of its first
\* character.
RECURSIVE tokenize(_)
tokenize(lexer) ==
    IF lexer.i > Len(lexer.chars) THEN <<>>
    ELSE <<[token |-> read_token(lexer).token, i |-> lexer.i]>>
         \o tokenize(read_token(lexer).lexer)

SourceTokens == tokenize(Lexer_new(parser.source))

\* TRUE when the token at t stands inside an expression: the last brace
\* before it is a `{`.
RECURSIVE InsideExpr(_, _)
InsideExpr(tokens, t) ==
    IF t = 1 THEN FALSE
    ELSE CASE tokens[t - 1].token.kind = "ExprStart" -> TRUE
           [] tokens[t - 1].token.kind = "ExprEnd" -> FALSE
           [] OTHER -> InsideExpr(tokens, t - 1)

\* The token at t is a `|` or a `}` outside an expression or a `{` inside.
Offending(tokens, t) ==
    IF InsideExpr(tokens, t) THEN tokens[t].token.kind = "ExprStart"
    ELSE tokens[t].token.kind \in {"Pipe", "ExprEnd"}

\* The error kind the claim gives the offending token at t.
OffendingKind(tokens, t) ==
    CASE tokens[t].token.kind = "Pipe" -> "PipeOutsideExpr"
      [] tokens[t].token.kind = "ExprEnd" -> "UnmatchedExprEnd"
      [] OTHER -> "ExprStartInsideExpr"

\* The source before the token at t is free of errors of its own: parsed
\* alone, all that is wrong with it is that the input ends.
SoundBefore(tokens, t) ==
    LET before == parse_items(SubSeq(parser.source, 1, tokens[t].i - 1))
    IN  \/ before.ok
        \/ before.kind = "UnmatchedExprStart"
        \/ before.kind = "ExpectedFilter" /\ before.range.start = before.range.end

\* The first offending token of the source, 0 if there is none.
FirstOffending(tokens) ==
    IF \E t \in 1..Len(tokens) : Offending(tokens, t)
    THEN CHOOSE t \in 1..Len(tokens) :
            /\ Offending(tokens, t)
            /\ \A u \in 1..(t - 1) : ~Offending(tokens, u)
    ELSE 0

\* C33 as claimed: a `|` outside an expression yields PipeOutsideExpr, a `}`
\* outside an expression UnmatchedExprEnd and a `{` inside an expression
\* ExprStartInsideExpr, with the byte range of that token and no items.
C33_StructuralErrors ==
    (parser.state = "parsed" /\ FirstOffending(SourceTokens) # 0
       /\ SoundBefore(SourceTokens, FirstOffending(SourceTokens))) =>
       parser.result = ParseErr(OffendingKind(SourceTokens, FirstOffending(SourceTokens)),
                                SourceTokens[FirstOffending(SourceTokens)].token.range)

\* The error kind the parser gives the offending token at t: a `{` right
\* after a `|` is reported as the filter that is missing there.
OffendingKindAfterPipe(tokens, t) ==
    IF tokens[t].token.kind = "ExprStart" /\ tokens[t - 1].token.kind = "Pipe"
    THEN "ExpectedFilter"
    ELSE OffendingKind(tokens, t)

\* C33 as amended: as claimed, except that a `{` that directly follows a
\* `|` inside an expression yields ExpectedFilter (with the range of the
\* `{`).
C33_StructuralErrorsAfterPipe ==
    (parser.state = "parsed" /\ FirstOffending(SourceTokens) # 0
       /\ SoundBefore(SourceTokens, FirstOffending(SourceTokens))) =>
       parser.result
          = ParseErr(OffendingKindAfterPipe(SourceTokens, FirstOffending(SourceTokens)),
                     SourceTokens[FirstOffending(SourceTokens)].token.range)

\* `{` after a filter inside an expression that does not start the source.
C33_Witness ==
    /\ parser.state = "parsed"
    /\ parser.source = <<Wide, "{", "f", "{">>
    /\ parser.result = ParseErr("ExprStartInsideExpr", Range(4, 5))

\* The last `{` token of the source.
LastExprStart(tokens) ==
    CHOOSE t \in 1..Len(tokens) :
       /\ tokens[t].token.kind = "ExprStart"
       /\ \A u \in (t + 1)..Len(tokens) : tokens[u].token.kind # "ExprStart"

\* C34: a source that ends inside an expression, with nothing but
\* well-formed filters after the `{` (the source with `}` added parses), is
\* rejected with UnmatchedExprStart whose range is that of the `{` token,
\* however many filters follow it.
C34_UnmatchedExprStart ==
    (/\ parser.state = "parsed"
     /\ InsideExpr(SourceTokens, Len(SourceTokens) + 1)
     /\ parse_items(Append(parser.source, "}")).ok) =>
       parser.result
          = ParseErr("UnmatchedExprStart",
                     SourceTokens[LastExprStart(SourceTokens)].token.range)

\* Two filters follow a `{` that is never closed.
C34_Witness ==
    /\ parser.state = "parsed"
    /\ parser.source = <<"{", "f", "|", "#", "1", "-", "2">>
    /\ parser.result = ParseErr("UnmatchedExprStart", Range(0, 1))

\* The kinds of the errors raised while a filter is parsed.
FilterErrorKinds ==
    {"UnknownFilter", "RangeStartOverEnd", "ExpectedRange", "ExpectedPipeOrExprEnd"}

\* The error of a filter by itself, with the range local to its text: what
\* Filter::parse reports, or the character left after the filter.
LocalError(chars, filter) ==
    IF ~filter.ok THEN filter
    ELSE IF filter.value.read < Len(chars)
         THEN ParseErr("ExpectedPipeOrExprEnd",
                       Range(position(chars, filter.value.read),
                             position(chars, filter.value.read + 1)))
         ELSE ParseOk(<<>>)

\* The Raw tokens inside an expression that are not a filter.
BadFilters(tokens) ==
    {t \in 1..Len(tokens) :
        /\ tokens[t].token.kind = "Raw"
        /\ InsideExpr(tokens, t)
        /\ ~LocalError(tokens[t].token.raw, Filter_parse(tokens[t].token.raw)).ok}

\* The range r moved by n bytes.
Shifted(r, n) == Range(r.start + n, r.end + n)

\* C35: an error raised while a filter is parsed is reported with a byte
\* range over the whole source: the range local to the filter's text moved
\* by the byte offset at which the filter's token starts, wherever the
\* expression stands in the pattern.
C35_FilterErrorShifted ==
    (parser.state = "parsed" /\ ~parser.result.ok
       /\ parser.result.kind \in FilterErrorKinds) =>
       /\ BadFilters(SourceTokens) # {}
       /\ LET t == Min(BadFilters(SourceTokens))
              tok == SourceTokens[t].token
              local == LocalError(tok.raw, Filter_parse(tok.raw))
          IN  /\ parser.result.kind = local.kind
              /\ parser.result.range = Shifted(local.range, tok.range.start)
              /\ parser.result.range.end <= source_len(parser.source)

\* `#2-1` in an expression that follows a two-byte constant.
C35_Witness ==
    /\ parser.state = "parsed"
    /\ parser.source = <<Wide, "{", "#", "2", "-", "1", "}">>
    /\ parser.result = ParseErr("RangeStartOverEnd", Range(4, 7))

\* The forwarder is blocked in write_all on entry j of stdins: the pipe is
\* full and its reader is alive.
ForwarderBlockedOn(j) ==
    /\ Alive
    /\ fpc = "write"
    /\ fj = j
    /\ j <= Len(stdins)
    /\ stdins[j].some
    /\ pipes[stdins[j].pipe].r
    /\ Len(pipes[stdins[j].pipe].buf) = PipeCap

\* The command behind entry j of stdins has read nothing of its stdin:
\* every chunk delivered to it is still in the pipe.
NeverRead(j) == Len(delivered[j]) = Len(pipes[stdins[j].pipe].buf)

\* The main thread is blocked in read_line: the stdout it reads is empty
\* and its writer is alive.
MainBlocked ==
    /\ pc = "loop"
    /\ li <= Len(items)
    /\ items[li].type = "reader"
    /\ pipes[items[li].pipe].buf = <<>>
    /\ pipes[items[li].pipe].w

\* The process whose stdin is pipe q.
ReaderOf(q) == CHOOSE p \in 1..Len(procs) : procs[p].inp = q

\* Process p has ended, or is an internal command that waits for input
\* which is not there.
Starved(p) ==
    \/ procs[p].st # "run"
    \/ /\ procs[p].kind = "int"
       /\ procs[p].pend = <<>>
       /\ procs[p].inp # 0
       /\ pipes[procs[p].inp].buf = <<>>
       /\ pipes[procs[p].inp].w

\* The execution is stuck at entry j of stdins.
StuckAt(j) ==
    /\ ForwarderBlockedOn(j)
    /\ NeverRead(j)
    /\ MainBlocked
    /\ \A p \in 1..Len(procs) : p # ReaderOf(stdins[j].pipe) => Starved(p)

\* C36: when the forwarder is blocked writing to the stdin of a command that
\* has read nothing of it, the main thread is blocked reading a child's
\* stdout and every other child waits for input, the execution stays so for
\* ever: the only steps that end it are steps of that command itself (it
\* reads, writes or exits after all) and the write failing with an error.
\* The state is reachable for an expression that is neither marked `:` nor
\* a built-in generator.
C36_StuckForever ==
    [][\A j \in 1..Len(stdins) :
          StuckAt(j) =>
             \/ StuckAt(j)'
             \/ procs'[ReaderOf(stdins[j].pipe)] # procs[ReaderOf(stdins[j].pipe)]
             \/ pipes'[stdins[j].pipe] # pipes[stdins[j].pipe]
             \/ fres' = "err"]_vars

\* "{!tr -d a}: {upper}": tr has read nothing, parent stdin has more.
C36_Witness ==
    /\ pattern[1] = Pipeline(FALSE, <<Command("tr", <<"-d", "a">>, TRUE)>>)
    /\ StuckAt(1)
    /\ procs[ReaderOf(stdins[1].pipe)].kind = "ext"
    /\ procs[ReaderOf(stdins[1].pipe)].st = "run"
    /\ nread = 2

\* C37 as stated: the _REW_SPAWNED_BY value an internal child receives is
\* the program name followed by the sub-command of every rew process above
\* the child, one more entry for each level of nesting.
RECURSIVE Words(_)
Words(names) ==
    IF names = <<>> THEN <<>>
    ELSE <<Space, Head(names)>> \o Words(Tail(names))

C37_SpawnedByAncestry ==
    rew.spawned_by.some =>
        rew.spawned_by.value = rew.top \o Words(rew.ancestors)

\* C37 amended: the _REW_SPAWNED_BY value an internal child receives is the
\* program name followed by the sub-command of the rew process that spawned
\* it, and of no other: it has those two entries at every level of nesting.
C37_SpawnedBySpawner ==
    rew.spawned_by.some =>
        rew.spawned_by.value
            = rew.top \o <<Space, rew.ancestors[Len(rew.ancestors)]>>

\* `my rew x` spawned `rew cat`, which spawned this process: its value
\* names `my rew` and cat.
C37_Witness ==
    /\ rew.top = <<"my", Space, crate_name>>
    /\ rew.ancestors = <<"x", "cat">>
    /\ rew.spawned_by = Var(<<"my", Space, crate_name, Space, "cat">>)

\* Piece x comes from item i: the item's constant, or a record of the item's
\* pipeline.
FromItem(i, x) ==
    IF pattern[i].type = "const"
    THEN x = pattern[i].value
    ELSE x.src = Writer(items[i].pipe)

\* C39: when a reader reports end-of-stream while a record is being composed,
\* the pieces composed so far are dropped: from the moment end-of-stream is
\* reported the output gets no further record, and every record that was
\* written holds one piece of every item of the pattern, the item's constant
\* or a record of the item's pipeline.
C39_PartialDiscarded ==
    /\ [](\A k \in 1..Len(output) :
             /\ Len(output[k]) = Len(pattern)
             /\ \A i \in 1..Len(pattern) : FromItem(i, output[k][i]))
    /\ [][eos' # 0 => output' = output]_vars

\* The second reader of a pattern reported end-of-stream when the record in
\* hand already held a piece; the run has ended without writing it.
C39_Witness ==
    /\ pc = "done"
    /\ result = "ok"
    /\ eos >= 2
    /\ buffer # <<>>
    /\ Len(output) >= 1

\* The items hold no Expression reader.
NoReader == \A i \in 1..Len(pattern) : pattern[i].type = "const"

\* The output loop can take its next step: push a constant or write.
LoopStep == LoopConstant \/ LoopWrite

\* C40: the output loop is left only when a reader reports end-of-stream or
\* an operation fails.  On items without a reader it is therefore never left
\* for the shutdown: it can always take its next step, it writes the record
\* of the constants again and again (as many times as the run is followed,
\* or until a write fails), and the waiting for children and the join are
\* never reached.
C40_LoopExits ==
    /\ [][(pc = "loop" /\ pc' # "loop") => (eos' # 0 \/ result' = "err")]_vars
    /\ [](NoReader =>
            /\ pc \in {"build", "loop"} \/ (pc = "done" /\ result = "err")
            /\ eos = 0
            /\ (pc = "loop" /\ Len(output) < MaxOut) => ENABLED LoopStep
            /\ \A k \in 1..Len(output) :
                  output[k] = [i \in 1..Len(pattern) |-> pattern[i].value])
    /\ (NoReader ~> (Len(output) = MaxOut \/ result = "err"))

\* The constants a, b were written as a record as many times as the run is
\* followed, and the loop is still running.
C40_Witness ==
    /\ pattern = <<Constant("a"), Constant("b")>>
    /\ pc = "loop"
    /\ Len(output) = MaxOut
    /\ output[MaxOut] = <<"a", "b">>
    /\ fpc = "done"

====
